---- MODULE Spec2Model ----
(***************************************************************************)
(* A model of liveraid: a union filesystem that stores each file whole on  *)
(* one data drive and keeps block-wise Reed-Solomon parity over the        *)
(* position namespaces of all drives.                                      *)
(*                                                                         *)
(* The module holds one set of variables and several specifications over   *)
(* them:                                                                   *)
(*   SpecParity   filesystem operations with file contents, the parity     *)
(*                encoder, drive loss, block recovery and recovery reads   *)
(*   SpecFs       filesystem operations over a position namespace that     *)
(*                can be exhausted                                         *)
(*   SpecJournal  the dirty bitmap, its worker thread, flush, periodic     *)
(*                save, crash and shutdown                                 *)
(*   SpecRebuild  the live rebuild of a drive against open/create/release  *)
(*                                                                         *)
(* Widths are scaled: a position is PosBits wide instead of 32 bits, so    *)
(* that UINT32_MAX and the wrap-around of uint32_t arithmetic are within   *)
(* reach of the explored states.                                           *)
(***************************************************************************)
EXTENDS Integers, Sequences, FiniteSets, TLC

(***************************************************************************)
(* Bounds of the model                                                     *)
(***************************************************************************)
PosBits    == 3      \* width of uint32_t positions in the model
BlockSize  == 2      \* cfg.block_size, in bytes
MaxHandles == 2      \* open handles that exist at the same time
MaxFlushers == 2     \* threads that may call journal_flush concurrently
MaxOpenCount == 2    \* largest open count a file record reaches
MaxExtents == 2      \* longest free-extent list of a position allocator

Wrap       == 2 ^ PosBits
UINT32_MAX == Wrap - 1
U32(x)     == x % Wrap
Positions  == 0 .. UINT32_MAX

\* s repeated n times.
RECURSIVE Rep(_, _)
Rep(s, n) ==
  IF n = 0 THEN ""
  ELSE IF n % 2 = 0 THEN Rep(s \o s, n \div 2) ELSE s \o Rep(s \o s, n \div 2)

LongPathLen == 4092  \* strlen of the long vpath (below PATH_MAX = 4096)
LongPath   == "/" \o Rep("x", LongPathLen - 1)
TreeDirs   == {"/d", "/e"}                   \* directories that hold files
TreeFiles  == {"/d/x", "/e/x"}
PathSeq    == <<"/a", "/b", "/c", LongPath, "/d", "/e", "/d/x", "/e/x">>
VPaths     == {PathSeq[i] : i \in 1 .. 3}   \* the vpaths of a few characters
AllPaths   == {PathSeq[i] : i \in DOMAIN PathSeq}
PathIndex(path) == CHOOSE i \in DOMAIN PathSeq : PathSeq[i] = path
FileIds    == 1 .. Cardinality(VPaths)      \* lr_file records (pointers)
InodeIds   == 1 .. Cardinality(VPaths) + 1  \* backing inodes on the data drives
HandleIds  == 1 .. MaxHandles
NULL       == 0

LR_PLACE_MOSTFREE   == 0
LR_PLACE_ROUNDROBIN == 1
LR_PLACE_LFS        == 2
LR_PLACE_PFRD       == 3

Min(a, b) == IF a < b THEN a ELSE b
Max(a, b) == IF a > b THEN a ELSE b
Range(s)  == {s[i] : i \in DOMAIN s}
\* F applied to the value e: a local name for a value that is used repeatedly.
With(e, F(_)) == F(e)

(***************************************************************************)
(* GF(2^8) arithmetic of the erasure-code library (polynomial 0x11d),      *)
(* computed through its exponent and logarithm tables.                     *)
(***************************************************************************)
RECURSIVE Xor(_, _)
Xor(a, b) == IF a = 0 THEN b
             ELSE IF b = 0 THEN a
             ELSE ((a + b) % 2) + 2 * Xor(a \div 2, b \div 2)

gff_base ==
  <<
    1, 2, 4, 8, 16, 32, 64, 128, 29, 58, 116, 232, 205, 135, 19, 38,
    76, 152, 45, 90, 180, 117, 234, 201, 143, 3, 6, 12, 24, 48, 96, 192,
    157, 39, 78, 156, 37, 74, 148, 53, 106, 212, 181, 119, 238, 193, 159, 35,
    70, 140, 5, 10, 20, 40, 80, 160, 93, 186, 105, 210, 185, 111, 222, 161,
    95, 190, 97, 194, 153, 47, 94, 188, 101, 202, 137, 15, 30, 60, 120, 240,
    253, 231, 211, 187, 107, 214, 177, 127, 254, 225, 223, 163, 91, 182, 113, 226,
    217, 175, 67, 134, 17, 34, 68, 136, 13, 26, 52, 104, 208, 189, 103, 206,
    129, 31, 62, 124, 248, 237, 199, 147, 59, 118, 236, 197, 151, 51, 102, 204,
    133, 23, 46, 92, 184, 109, 218, 169, 79, 158, 33, 66, 132, 21, 42, 84,
    168, 77, 154, 41, 82, 164, 85, 170, 73, 146, 57, 114, 228, 213, 183, 115,
    230, 209, 191, 99, 198, 145, 63, 126, 252, 229, 215, 179, 123, 246, 241, 255,
    227, 219, 171, 75, 150, 49, 98, 196, 149, 55, 110, 220, 165, 87, 174, 65,
    130, 25, 50, 100, 200, 141, 7, 14, 28, 56, 112, 224, 221, 167, 83, 166,
    81, 162, 89, 178, 121, 242, 249, 239, 195, 155, 43, 86, 172, 69, 138, 9,
    18, 36, 72, 144, 61, 122, 244, 245, 247, 243, 251, 235, 203, 139, 11, 22,
    44, 88, 176, 125, 250, 233, 207, 131, 27, 54, 108, 216, 173, 71, 142
  >>

gflog_base ==
  <<
    0, 1, 25, 2, 50, 26, 198, 3, 223, 51, 238, 27, 104, 199, 75, 4,
    100, 224, 14, 52, 141, 239, 129, 28, 193, 105, 248, 200, 8, 76, 113, 5,
    138, 101, 47, 225, 36, 15, 33, 53, 147, 142, 218, 240, 18, 130, 69, 29,
    181, 194, 125, 106, 39, 249, 185, 201, 154, 9, 120, 77, 228, 114, 166, 6,
    191, 139, 98, 102, 221, 48, 253, 226, 152, 37, 179, 16, 145, 34, 136, 54,
    208, 148, 206, 143, 150, 219, 189, 241, 210, 19, 92, 131, 56, 70, 64, 30,
    66, 182, 163, 195, 72, 126, 110, 107, 58, 40, 84, 250, 133, 186, 61, 202,
    94, 155, 159, 10, 21, 121, 43, 78, 212, 229, 172, 115, 243, 167, 87, 7,
    112, 192, 247, 140, 128, 99, 13, 103, 74, 222, 237, 49, 197, 254, 24, 227,
    165, 153, 119, 38, 184, 180, 124, 17, 68, 146, 217, 35, 32, 137, 46, 55,
    63, 209, 91, 149, 188, 207, 205, 144, 135, 151, 178, 220, 252, 190, 97, 242,
    86, 211, 171, 20, 42, 93, 158, 132, 60, 57, 83, 71, 109, 65, 162, 31,
    45, 67, 216, 183, 123, 164, 118, 196, 23, 73, 236, 127, 12, 111, 246, 108,
    161, 59, 82, 41, 157, 85, 170, 251, 96, 134, 177, 187, 204, 62, 90, 203,
    89, 95, 176, 156, 169, 160, 81, 11, 245, 22, 235, 122, 117, 44, 215, 79,
    174, 213, 233, 230, 231, 173, 232, 116, 214, 244, 234, 168, 80, 88, 175
  >>

gf_mul(a, b) == IF a = 0 \/ b = 0 THEN 0
                ELSE gff_base[((gflog_base[a] + gflog_base[b]) % 255) + 1]

gf_inv(a) == IF a = 0 THEN 0
             ELSE gff_base[((255 - gflog_base[a]) % 255) + 1]

\* An (m x k) matrix is a function [0..m-1 -> [0..k-1 -> byte]].
gf_gen_cauchy1_matrix(m, k) ==
  [i \in 0 .. m - 1 |->
     [j \in 0 .. k - 1 |->
        IF i < k THEN (IF i = j THEN 1 ELSE 0) ELSE gf_inv(Xor(i, j))]]

Identity(n) == [i \in 0 .. n - 1 |-> [j \in 0 .. n - 1 |-> IF i = j THEN 1 ELSE 0]]

\* One column of the Gauss-Jordan elimination: pivot search and row swap,
\* scaling of the pivot row, elimination of the column from the other rows.
InvertColumn(st, i, n) ==
  LET in0  == st.in
      out0 == st.out
      cand == {j \in i + 1 .. n - 1 : in0[j][i] # 0}
      swp(mx, j) == [r \in 0 .. n - 1 |->
                       IF r = i THEN mx[j] ELSE IF r = j THEN mx[i] ELSE mx[r]]
      scl(mx, temp) == [r \in 0 .. n - 1 |->
                          IF r = i THEN [c \in 0 .. n - 1 |-> gf_mul(mx[i][c], temp)]
                          ELSE mx[r]]
      elim(mx, piv) == [r \in 0 .. n - 1 |->
                          IF r = i THEN mx[r]
                          ELSE [c \in 0 .. n - 1 |->
                                  Xor(mx[r][c], gf_mul(piv[r][i], mx[i][c]))]]
  IN  IF in0[i][i] = 0 /\ cand = {}
      THEN [rc |-> -1, in |-> in0, out |-> out0]
      ELSE
        With(IF in0[i][i] # 0 THEN i ELSE CHOOSE c \in cand : \A c2 \in cand : c <= c2,
          LAMBDA j :
            With(<<swp(in0, j), swp(out0, j)>>,
              LAMBDA m1 :
                With(<<scl(m1[1], gf_inv(m1[1][i][i])), scl(m1[2], gf_inv(m1[1][i][i]))>>,
                  LAMBDA m2 :
                    [rc |-> 0, in |-> elim(m2[1], m2[1]), out |-> elim(m2[2], m2[1])])))

RECURSIVE InvertFrom(_, _, _)
InvertFrom(st, i, n) ==
  IF i = n \/ st.rc # 0 THEN st
  ELSE InvertFrom(InvertColumn(st, i, n), i + 1, n)

\* Returns [rc, out]: rc = -1 when the matrix is singular.
gf_invert_matrix(in_mat, n) ==
  LET r == InvertFrom([rc |-> 0, in |-> in_mat, out |-> Identity(n)], 0, n)
  IN  [rc |-> r.rc, out |-> r.out]

\* A block is a sequence of BlockSize bytes.
ZeroBlock == [b \in 1 .. BlockSize |-> 0]

RECURSIVE XorSum(_, _, _, _)
XorSum(coef, src, b, j) ==
  IF j = 0 THEN 0
  ELSE Xor(gf_mul(coef[j - 1], src[j][b]), XorSum(coef, src, b, j - 1))

\* dest[l] = sum over the k sources j of coef[l][j] * src[j], bytewise.
\* coefs is a (rows x k) matrix, src a sequence of k blocks.
ec_encode_data(k, rows, coefs, src) ==
  [l \in 0 .. rows - 1 |-> [b \in 1 .. BlockSize |-> XorSum(coefs[l], src, b, k)]]

(***************************************************************************)
(* Position allocator (alloc.c).  An allocator is a record                 *)
(* [next_free, extents], extents a sequence of [start, count].             *)
(***************************************************************************)
alloc_init == [next_free |-> 0, extents |-> <<>>]

RemoveAt(s, i) == [k \in 1 .. Len(s) - 1 |-> IF k < i THEN s[k] ELSE s[k + 1]]
InsertAt(s, i, e) ==
  [k \in 1 .. Len(s) + 1 |-> IF k < i THEN s[k] ELSE IF k = i THEN e ELSE s[k - 1]]

\* Faulty variants of alloc_positions, used to show that the allocator laws
\* tell them from the code: an exact fit that leaves its emptied extent in
\* the list, and a search that takes the last fitting extent.
alloc_positions_keep_empty(a, count) ==
  LET fits == {i \in 1 .. Len(a.extents) : a.extents[i].count >= count}
  IN  IF count = 0 THEN [a |-> a, start |-> a.next_free]
      ELSE IF fits # {}
      THEN LET i  == CHOOSE x \in fits : \A y \in fits : x <= y
               e  == a.extents[i]
               e2 == [start |-> U32(e.start + count), count |-> e.count - count]
           IN  [a |-> [a EXCEPT !.extents = [a.extents EXCEPT ![i] = e2]],
                start |-> e.start]
      ELSE IF count > UINT32_MAX - a.next_free
      THEN [a |-> a, start |-> UINT32_MAX]
      ELSE [a |-> [a EXCEPT !.next_free = U32(a.next_free + count)],
            start |-> a.next_free]

alloc_positions_last_fit(a, count) ==
  LET fits == {i \in 1 .. Len(a.extents) : a.extents[i].count >= count}
  IN  IF count = 0 THEN [a |-> a, start |-> a.next_free]
      ELSE IF fits # {}
      THEN LET i  == CHOOSE x \in fits : \A y \in fits : x >= y
               e  == a.extents[i]
               e2 == [start |-> U32(e.start + count), count |-> e.count - count]
           IN  [a |-> [a EXCEPT !.extents =
                          IF e2.count = 0 THEN RemoveAt(a.extents, i)
                          ELSE [a.extents EXCEPT ![i] = e2]],
                start |-> e.start]
      ELSE IF count > UINT32_MAX - a.next_free
      THEN [a |-> a, start |-> UINT32_MAX]
      ELSE [a |-> [a EXCEPT !.next_free = U32(a.next_free + count)],
            start |-> a.next_free]

\* A bump without the namespace check.
alloc_positions_unchecked(a, count) ==
  LET fits == {i \in 1 .. Len(a.extents) : a.extents[i].count >= count}
  IN  IF count = 0 THEN [a |-> a, start |-> a.next_free]
      ELSE IF fits # {}
      THEN LET i  == CHOOSE x \in fits : \A y \in fits : x <= y
               e  == a.extents[i]
               e2 == [start |-> U32(e.start + count), count |-> e.count - count]
           IN  [a |-> [a EXCEPT !.extents =
                          IF e2.count = 0 THEN RemoveAt(a.extents, i)
                          ELSE [a.extents EXCEPT ![i] = e2]],
                start |-> e.start]
      ELSE [a |-> [a EXCEPT !.next_free = U32(a.next_free + count)],
            start |-> a.next_free]

\* Returns [a, start]: the allocator afterwards and the start position,
\* UINT32_MAX when the namespace is exhausted.
alloc_positions(a, count) ==
  LET fits == {i \in 1 .. Len(a.extents) : a.extents[i].count >= count}
  IN  IF count = 0 THEN [a |-> a, start |-> a.next_free]
      ELSE IF fits # {}
      THEN LET i  == CHOOSE x \in fits : \A y \in fits : x <= y
               e  == a.extents[i]
               e2 == [start |-> U32(e.start + count), count |-> e.count - count]
           IN  [a |-> [a EXCEPT !.extents =
                          IF e2.count = 0 THEN RemoveAt(a.extents, i)
                          ELSE [a.extents EXCEPT ![i] = e2]],
                start |-> e.start]
      ELSE IF count > UINT32_MAX - a.next_free
      THEN [a |-> a, start |-> UINT32_MAX]
      ELSE [a |-> [a EXCEPT !.next_free = U32(a.next_free + count)],
            start |-> a.next_free]

\* A faulty FreeInsert: bridging two extents forgets the right one's count.
FreeInsertBridgeShort(a, start, count) ==
  LET ex  == a.extents
      n   == Len(ex)
      gt  == {k \in 1 .. n : ex[k].start > start}
      i   == IF gt = {} THEN n + 1 ELSE CHOOSE x \in gt : \A y \in gt : x <= y
      merge_prev == i > 1 /\ U32(ex[i - 1].start + ex[i - 1].count) = start
      merge_next == i <= n /\ U32(start + count) = ex[i].start
  IN  IF merge_prev /\ merge_next
      THEN RemoveAt([ex EXCEPT ![i - 1].count = U32(@ + count)], i)
      ELSE IF merge_prev
      THEN [ex EXCEPT ![i - 1].count = U32(@ + count)]
      ELSE IF merge_next
      THEN [ex EXCEPT ![i] = [start |-> start, count |-> U32(ex[i].count + count)]]
      ELSE InsertAt(ex, i, [start |-> start, count |-> count])

\* free_positions before the high-water reclaim: sorted insert with merging.
FreeInsert(a, start, count) ==
  LET ex  == a.extents
      n   == Len(ex)
      gt  == {k \in 1 .. n : ex[k].start > start}
      \* i is the (1-based) insertion point: the first extent starting after start
      i   == IF gt = {} THEN n + 1 ELSE CHOOSE x \in gt : \A y \in gt : x <= y
      merge_prev == i > 1 /\ U32(ex[i - 1].start + ex[i - 1].count) = start
      merge_next == i <= n /\ U32(start + count) = ex[i].start
  IN  IF merge_prev /\ merge_next
      THEN RemoveAt([ex EXCEPT ![i - 1].count = U32(@ + count + ex[i].count)], i)
      ELSE IF merge_prev
      THEN [ex EXCEPT ![i - 1].count = U32(@ + count)]
      ELSE IF merge_next
      THEN [ex EXCEPT ![i] = [start |-> start, count |-> U32(ex[i].count + count)]]
      ELSE InsertAt(ex, i, [start |-> start, count |-> count])

\* Faulty variants of free_positions: one never lowers the high-water mark,
\* one lowers it and keeps the extent it absorbed.
free_positions_no_reclaim(a, start, count) ==
  IF count = 0 THEN a
  ELSE [next_free |-> a.next_free, extents |-> FreeInsert(a, start, count)]

free_positions_keep_extent(a, start, count) ==
  IF count = 0 THEN a
  ELSE With(FreeInsert(a, start, count),
         LAMBDA ex :
           LET n == Len(ex)
           IN  IF n > 0 /\ U32(ex[n].start + ex[n].count) = a.next_free
               THEN [next_free |-> ex[n].start, extents |-> ex]
               ELSE [next_free |-> a.next_free, extents |-> ex])

free_positions(a, start, count) ==
  IF count = 0 THEN a
  ELSE With(FreeInsert(a, start, count),
         LAMBDA ex :
           LET n == Len(ex)
           IN  IF n > 0 /\ U32(ex[n].start + ex[n].count) = a.next_free
               THEN [next_free |-> ex[n].start, extents |-> SubSeq(ex, 1, n - 1)]
               ELSE [next_free |-> a.next_free, extents |-> ex])

(***************************************************************************)
(* State (state.h, state.c)                                                *)
(***************************************************************************)
blocks_for_size(size, block_size) ==
  IF size = 0 THEN 0
  ELSE U32(size \div block_size + (IF size % block_size # 0 THEN 1 ELSE 0))

\* An unused lr_file slot.
NoFile == [vpath |-> "", drive_idx |-> 0, size |-> 0, block_count |-> 0,
           parity_pos_start |-> 0, open_count |-> 0]

\* state_pick_drive under the default placement policy (most free space):
\* free[d] is the free space statvfs reports for drive d.
RECURSIVE PickFrom(_, _, _, _, _)
PickFrom(free, n, i, best, best_free) ==
  IF i = n THEN best
  ELSE IF free[i] > best_free THEN PickFrom(free, n, i + 1, i, free[i])
  ELSE PickFrom(free, n, i + 1, best, best_free)

state_pick_drive(free, n) == PickFrom(free, n, 0, 0, 0)

\* Binary search of one drive's position index, a sequence of
\* [pos_start, block_count, file]; returns the file id or NULL.
RECURSIVE BSearch(_, _, _, _)
BSearch(arr, pos, lo, hi) ==
  IF lo > hi THEN NULL
  ELSE LET mid == lo + (hi - lo) \div 2
           e   == arr[mid + 1]
       IN  IF pos >= e.pos_start /\ pos < U32(e.pos_start + e.block_count)
           THEN e.file
           ELSE IF pos < e.pos_start THEN BSearch(arr, pos, lo, mid - 1)
           ELSE BSearch(arr, pos, mid + 1, hi)

\* All arrangements of a finite set as a sequence.
Perms(S) ==
  {p \in [1 .. Cardinality(S) -> S] : \A i, j \in 1 .. Cardinality(S) : p[i] = p[j] => i = j}

(***************************************************************************)
(* Variables                                                               *)
(***************************************************************************)
VARIABLES
  drive_count,   \* s->drive_count
  levels,        \* s->parity->levels (np)
  files,         \* [FileIds -> lr_file]; a free slot holds NoFile
  file_list,     \* s->file_list / s->file_table: the set of records in the table
  pos_index,     \* [drive -> sequence of lr_pos_entry]
  pos_alloc,     \* [drive -> drives[d].pos_alloc]
  handles,       \* [HandleIds -> lr_fh_t], with the locals of a thread inside lr_open
  unlinking,     \* real paths for which lr_unlink has still to call unlink(real)
  rfs,           \* the data drives: [<<drive, vpath>> -> inode or NULL]
  idata,         \* [InodeIds -> sequence of bytes]
  dead,          \* drives whose backing files cannot be opened or read
  parity,        \* the parity files: [level -> [position -> block]]
  fresh,         \* history: positions encoded from readable drives and unchanged since
  result,        \* the return value of the last lr_read / parity_recover_block
  journal_on,    \* s->journal != NULL (journal_init succeeded)
  budget,        \* <<n>>: n more filesystem operations are run; <<>>: no limit
  bitmap,        \* j->bitmap as the set of dirty positions
  bitmap_words,  \* j->bitmap_words
  nthreads,      \* j->nthreads
  bitmap_path,   \* j->bitmap_path is set
  running,       \* j->running
  processing,    \* j->processing
  wpc,           \* where worker_thread is: "wait", "save", "swap", "drain", "exit"
  batch,         \* the positions each drain thread has still to encode
  bitmap_file,   \* the bitmap file on disk
  fl_pc,         \* [flusher -> "idle", "waiting", "returned"]: a thread in journal_flush
  fl_owed,       \* history: positions dirty when the flusher called, not encoded since
  fl_had,        \* history: the flusher called journal_flush with dirty positions
  destroy_pc,    \* where lr_destroy is: "mounted", "flush", "stop", "join", "done"
  unlinked,      \* history: journal_done removed an existing bitmap file
  rb_pc,         \* where the control thread is in live_do_rebuild
  rb_todo,       \* the snapshotted vpaths still to rebuild
  rb_cur,        \* the locals of live_rebuild_one_file
  rb_out,        \* the lines sent to the control connection
  rb_count,      \* the counters rebuilt, failed, skipped
  held,          \* history: the positions handed out by the allocator under test
  mstate,        \* the records and allocators a metadata round trip starts from
  symlinks,      \* s->symlink_table: the vpaths of the symlink records
  dirs,          \* s->dir_table: the vpaths of the directory records
  rdirs,         \* the directories on the data drives: a set of <<drive, vpath>>
  ctrl_line,     \* the command line handle_connection read, "" before it has
  placement_policy, \* s->cfg.placement_policy
  rr_next,       \* s->rr_next
  calls,         \* history: the calls of state_pick_drive made so far
  at_loss,       \* history, per drive: the positions consistent when it was lost,
                 \* and those drained since
  parity_dead,   \* the parity levels whose file fails every pread and pwrite
  parity_ro,     \* the parity levels whose file can be read but fails every pwrite
  scrub_pending, \* j->scrub_pending
  repair_pending, \* j->repair_pending
  do_repair,     \* the local do_repair of worker_thread
  repair_owed,   \* history: a repair was requested and no repair pass has run since
  state_lock,    \* s->state_lock: per thread "none", "rd" or "wr"
  bitmap_lock,   \* j->bitmap_lock: the thread that owns the mutex, or "none"
  lock_pc        \* per thread: the function it runs and its next lock operation

\* The threads of the mount: two FUSE request threads, the journal worker, a
\* parallel parity worker and the control socket thread.
LockThreads == {"fuse1", "fuse2", "worker", "parity_worker", "ctrl"}

cfgVars  == <<drive_count, levels, journal_on, budget>>
fsVars   == <<files, file_list, pos_index, pos_alloc, handles, unlinking, rfs, idata>>
parVars  == <<dead, parity, fresh, result>>
bmVars   == <<bitmap, bitmap_words>>
jcVars   == <<nthreads, bitmap_path>>
alVars   == <<held, mstate>>
nsVars   == <<symlinks, dirs, rdirs>>
stVars   == <<placement_policy, rr_next, calls>>
reqVars  == <<scrub_pending, repair_pending, do_repair, repair_owed>>
restVars == <<parity_dead, parity_ro, reqVars>>
lkVars   == <<state_lock, bitmap_lock, lock_pc>>
histVars == <<at_loss, restVars, lkVars>>
extVars  == <<nsVars, ctrl_line, stVars, histVars>>
jVars    == <<running, processing, wpc, batch, bitmap_file, fl_pc, fl_owed, fl_had,
              destroy_pc, unlinked>>
rbVars   == <<rb_pc, rb_todo, rb_cur, rb_out, rb_count>>
vars     == <<cfgVars, fsVars, parVars, bmVars, jcVars, jVars, rbVars, alVars, extVars>>

Drives    == 0 .. drive_count - 1
RealPaths == Drives \X AllPaths

\* fh->fd values besides an inode: a dead-drive handle.
DeadFd == -1
NoHandle == [st |-> "free", vpath |-> "", drive |-> 0, fd |-> 0, rdonly |-> FALSE]
NoResult == [op |-> "none"]

Live(id)  == files[id].vpath # ""
RealOf(f) == <<f.drive_idx, f.vpath>>          \* f->real_path

\* The positions [parity_pos_start, parity_pos_start + block_count) of a record.
RangeOf(f) == {U32(f.parity_pos_start + i) : i \in 0 .. f.block_count - 1}

state_find_file(vpath) ==
  LET m == {id \in file_list : files[id].vpath = vpath}
  IN  IF m = {} THEN NULL ELSE CHOOSE id \in m : TRUE

state_find_file_at_pos(drive_idx, pos) ==
  BSearch(pos_index[drive_idx], pos, 0, Len(pos_index[drive_idx]) - 1)

\* state_rebuild_pos_index: the entries of the files of one drive, sorted by
\* pos_start.  qsort leaves the order of entries with equal pos_start
\* unspecified, so every sorted arrangement is a possible outcome.
IndexChoices(fs, fl, drive_idx) ==
  LET ids == {id \in fl : fs[id].drive_idx = drive_idx}
  IN  {[k \in 1 .. Cardinality(ids) |->
          [pos_start |-> fs[p[k]].parity_pos_start,
           block_count |-> fs[p[k]].block_count,
           file |-> p[k]]] :
       p \in {q \in Perms(ids) :
                \A k \in 1 .. Cardinality(ids) - 1 :
                   fs[q[k]].parity_pos_start <= fs[q[k + 1]].parity_pos_start}}

state_rebuild_pos_index(fs, fl, drive_idx) ==
  \E arr \in IndexChoices(fs, fl, drive_idx) :
     pos_index' = [pos_index EXCEPT ![drive_idx] = arr]

\* journal_mark_dirty_range on a bitmap [bits, words]: bitmap_set of every
\* position, bitmap_ensure growing the word array (64 positions a word).
RECURSIVE EnsureWords(_, _, _)
EnsureWords(words, start, count) ==
  IF count = 0 THEN words
  ELSE LET word == start \div 64
       IN  EnsureWords(IF word >= words THEN (word + 1) * 2 ELSE words,
                       U32(start + 1), count - 1)

MarkedBits(bits, start, count) ==
  bits \cup {U32(start + i) : i \in 0 .. count - 1}

journal_mark_dirty_range(start, count) ==
  /\ bitmap' = MarkedBits(bitmap, start, count)
  /\ bitmap_words' = EnsureWords(bitmap_words, start, count)

\* Several ranges marked by one handler, in order.
RECURSIVE MarkAll(_, _)
MarkAll(bm, ranges) ==
  IF ranges = <<>> THEN bm
  ELSE MarkAll([bits  |-> MarkedBits(bm.bits, ranges[1][1], ranges[1][2]),
                words |-> EnsureWords(bm.words, ranges[1][1], ranges[1][2])],
               Tail(ranges))

\* if (s->journal) journal_mark_dirty_range(...), for each range in order
MarkRanges(ranges) ==
  LET bm == MarkAll([bits |-> bitmap, words |-> bitmap_words], ranges)
  IN  IF journal_on
      THEN bitmap' = bm.bits /\ bitmap_words' = bm.words
      ELSE UNCHANGED <<bitmap, bitmap_words>>

(***************************************************************************)
(* The data drives                                                         *)
(***************************************************************************)
\* The lowest inode that no path and no open descriptor refers to.
FreeInodes == {i \in InodeIds :
                 /\ \A rp \in RealPaths : rfs[rp] # i
                 /\ \A h \in HandleIds : ~(handles[h].st = "open" /\ handles[h].fd = i)
                 /\ rb_cur.fd # i}
NewInode == CHOOSE i \in FreeInodes : \A k \in FreeInodes : i <= k
\* The inode given to a new backing file of path: any free one; the model
\* takes the one numbered like the path when it is free.
NewInodeFor(path) == IF PathIndex(path) \in FreeInodes THEN PathIndex(path) ELSE NewInode

\* pwrite: the bytes of data at offset, a gap filled with zeroes.
PWrite(content, data, offset) ==
  [k \in 1 .. Max(Len(content), offset + Len(data)) |->
     IF k > offset /\ k <= offset + Len(data) THEN data[k - offset]
     ELSE IF k <= Len(content) THEN content[k] ELSE 0]

\* truncate: cut, or extend with zeroes.
Truncated(content, size) ==
  [k \in 1 .. size |-> IF k <= Len(content) THEN content[k] ELSE 0]

\* The block-sized slice of a byte sequence from byte offset off, zero padded.
BlockAt(content, off) ==
  [b \in 1 .. BlockSize |-> IF off + b <= Len(content) THEN content[off + b] ELSE 0]

\* The block that drive d holds at position pos by the file records: the
\* bytes of the file whose range covers pos, zero padded; zeroes if none.
TrueBlockIn(fs, fl, r, idt, d, pos) ==
  LET cover == {id \in fl : fs[id].drive_idx = d /\ pos \in RangeOf(fs[id])}
  IN  IF cover = {} THEN ZeroBlock
      ELSE LET id  == CHOOSE c \in cover : TRUE
               ino == r[RealOf(fs[id])]
               blk == U32(pos + Wrap - fs[id].parity_pos_start)
           IN  IF ino = NULL THEN ZeroBlock
               ELSE BlockAt(idt[ino], blk * BlockSize)

TrueBlock(d, pos) == TrueBlockIn(files, file_list, rfs, idata, d, pos)

\* The positions whose block on some drive differs between this state and the next.
ChangedPositions ==
  {p \in Positions :
     \E d \in Drives :
        TrueBlock(d, p) # TrueBlockIn(files', file_list', rfs', idata', d, p)}

(***************************************************************************)
(* Parity engine (parity.c)                                                *)
(***************************************************************************)
EIO == 5

\* C integer division truncates toward zero.
CDiv(a, b) == IF a >= 0 THEN a \div b ELSE -((-a) \div b)

RECURSIVE SortedSeq(_)
SortedSeq(S) ==
  IF S = {} THEN <<>>
  ELSE LET m == CHOOSE x \in S : \A y \in S : x <= y
       IN  <<m>> \o SortedSeq(S \ {m})

\* parity_open: the (nd+np) x nd encoding matrix; its rows nd.. are the
\* coefficients the encode tables are built from.
enc_matrix == gf_gen_cauchy1_matrix(drive_count + levels, drive_count)
ParityRows == [l \in 0 .. levels - 1 |-> enc_matrix[drive_count + l]]

\* The lookup, open(f->real_path, O_RDONLY) and pread of one data block that
\* encode, recovery and scrub share: found = a file is indexed at pos,
\* ok = it could be opened and read, buf = the bytes read, zero padded.
DataRead(d, pos) ==
  LET fid == state_find_file_at_pos(d, pos)
  IN  IF fid = NULL
      THEN [found |-> FALSE, ok |-> TRUE, buf |-> ZeroBlock]
      ELSE LET f       == files[fid]
               ino     == rfs[RealOf(f)]
               blk_off == U32(pos + Wrap - f.parity_pos_start)
               ok      == f.drive_idx \notin dead /\ ino # NULL
           IN  [found |-> TRUE, ok |-> ok,
                buf |-> IF ok THEN BlockAt(idata[ino], blk_off * BlockSize)
                        ELSE ZeroBlock]

parity_read_block(lev, pos) ==
  IF lev >= levels \/ lev \in parity_dead THEN [rc |-> -1, buf |-> ZeroBlock]
  ELSE [rc |-> 0, buf |-> parity[lev][pos]]

\* The parity blocks parity_update_position computes for pos.
EncodedParity(pos) ==
  ec_encode_data(drive_count, levels, ParityRows,
                 [k \in 1 .. drive_count |-> DataRead(k - 1, pos).buf])

parity_update_position(pos) ==
  IF levels = 0 THEN UNCHANGED parity
  ELSE LET enc == EncodedParity(pos)
       IN  parity' = [l \in 0 .. levels - 1 |->
                        IF l \in parity_dead \cup parity_ro
                        THEN parity[l]               \* parity_write_block fails
                        ELSE [parity[l] EXCEPT ![pos] = enc[l]]]

\* Returns [rc, buf].
parity_recover_block(drive_idx, pos) ==
  IF levels = 0 \/ drive_idx >= drive_count
  THEN [rc |-> -1, buf |-> ZeroBlock]
  ELSE
    With([d \in Drives |-> DataRead(d, pos)],
      LAMBDA rd :
        LET nd        == drive_count
            bad       == {d \in Drives \ {drive_idx} : rd[d].found /\ ~rd[d].ok}
            failedSet == bad \cup {drive_idx}
            nfailed   == Cardinality(failedSet)
            failed    == SortedSeq(failedSet)
            surv      == SortedSeq(Drives \ failedSet)
            surv_rows == surv \o [p \in 1 .. nfailed |-> nd + p - 1]
            pblk(p)   == IF parity_read_block(p, pos).rc # 0 THEN ZeroBlock
                         ELSE parity_read_block(p, pos).buf
        IN  IF 1 + Cardinality(bad) > levels
            THEN [rc |-> -1, buf |-> ZeroBlock]
            ELSE
              With(gf_invert_matrix([i \in 0 .. nd - 1 |-> enc_matrix[surv_rows[i + 1]]], nd),
                LAMBDA inv :
                  IF inv.rc # 0
                  THEN [rc |-> -1, buf |-> ZeroBlock]
                  ELSE
                    With(ec_encode_data(nd, nfailed,
                                        [i \in 0 .. nfailed - 1 |-> inv.out[failed[i + 1]]],
                                        [k \in 1 .. nd |->
                                           IF k <= Len(surv) THEN rd[surv[k]].buf
                                           ELSE pblk(k - Len(surv) - 1)]),
                      LAMBDA dst :
                        [rc |-> 0,
                         buf |-> dst[(CHOOSE i \in 1 .. nfailed : failed[i] = drive_idx) - 1]])))

(***************************************************************************)
(* Recovery read (fuse_ops.c, lr_read)                                     *)
(***************************************************************************)
RECURSIVE ReadLoop(_, _, _, _, _, _)
ReadLoop(f, blk, last_blk, offset, size, acc) ==
  IF ~(blk <= last_blk /\ blk < f.block_count)
  THEN [ret |-> Len(acc), data |-> acc]
  ELSE With(parity_recover_block(f.drive_idx, U32(f.parity_pos_start + blk)),
         LAMBDA r :
           IF r.rc # 0
           THEN [ret |-> IF Len(acc) > 0 THEN Len(acc) ELSE -EIO, data |-> acc]
           ELSE LET blk_base   == blk * BlockSize
                    copy_start == IF offset > blk_base THEN offset - blk_base ELSE 0
                    copy_len   == Min(BlockSize - copy_start, size - Len(acc))
                IN  ReadLoop(f, U32(blk + 1), last_blk, offset, size,
                             acc \o SubSeq(r.buf, copy_start + 1, copy_start + copy_len)))

\* Returns [ret, data]: ret the byte count or a negative errno.
lr_read(h, size, offset) ==
  LET fh == handles[h]
  IN  IF fh.fd # DeadFd /\ fh.drive \notin dead
      THEN \* pread on the descriptor succeeds
           LET c == idata[fh.fd]
               n == Max(0, Min(size, Len(c) - offset))
           IN  [ret |-> n, data |-> SubSeq(c, offset + 1, offset + n)]
      ELSE \* dead-drive handle, or pread failed with EIO
           LET fid == state_find_file(fh.vpath)
           IN  IF fid = NULL \/ levels = 0
               THEN [ret |-> -EIO, data |-> <<>>]
               ELSE LET f == files[fid]
                    IN  IF offset >= f.size
                        THEN [ret |-> 0, data |-> <<>>]
                        ELSE LET sz == IF offset + size > f.size
                                       THEN f.size - offset ELSE size
                                 first_blk == U32(offset \div BlockSize)
                                 last_blk  == U32(CDiv(offset + sz - 1, BlockSize))
                             IN  ReadLoop(f, first_blk, last_blk, offset, sz, <<>>)

(***************************************************************************)
(* FUSE operations (fuse_ops.c).  Each handler runs under the state write  *)
(* lock and is one step, except where it does I/O outside the lock.        *)
(***************************************************************************)
\* What every filesystem operation leaves alone, and its effect on the
\* history of freshly encoded positions.
FsKeep ==
  /\ \A d \in Drives : Len(pos_alloc'[d].extents) <= MaxExtents
  /\ fresh' = IF fresh = {} THEN {} ELSE fresh \ ChangedPositions
  /\ budget # <<0>>
  /\ budget' = IF budget = <<>> THEN <<>> ELSE <<budget[1] - 1>>
  /\ UNCHANGED <<drive_count, levels, journal_on, dead, parity, jcVars, alVars, extVars, jVars, rbVars>>

FsFrame == FsKeep /\ result' = NoResult

\* Contents of the inodes after a step, an inode that no path and no
\* descriptor refers to any longer being released by the kernel.
Reclaimed(idt) ==
  [i \in InodeIds |->
     IF /\ \A rp \in RealPaths : rfs'[rp] # i
        /\ \A h \in HandleIds : ~(handles'[h].st = "open" /\ handles'[h].fd = i)
        /\ rb_cur.fd # i
     THEN <<>> ELSE idt[i]]

FreeFileIds == {id \in FileIds : ~Live(id) /\ id \notin file_list}

OpenHandle(path, d, fd, ro) ==
  [st |-> "open", vpath |-> path, drive |-> d, fd |-> fd, rdonly |-> ro]

\* lr_create on a path that is already in the file table.
CreateExisting(h, ex, trunc) ==
  LET f    == files[ex]
      rp   == RealOf(f)
      had  == rfs[rp] # NULL
      ino  == IF had THEN rfs[rp] ELSE NewInodeFor(f.vpath)
      dotr == trunc /\ f.block_count > 0
  IN  /\ f.drive_idx \notin dead
      /\ f.open_count < MaxOpenCount
      /\ had \/ FreeInodes # {}
      /\ rfs' = [rfs EXCEPT ![rp] = ino]
      /\ idata' = [idata EXCEPT ![ino] = IF ~had \/ trunc THEN <<>> ELSE @]
      /\ files' = [files EXCEPT ![ex] =
                     [f EXCEPT !.open_count = @ + 1,
                               !.size = IF trunc THEN 0 ELSE @,
                               !.block_count = IF dotr THEN 0 ELSE @]]
      /\ IF dotr
         THEN /\ MarkRanges(<< <<f.parity_pos_start, f.block_count>> >>)
              /\ pos_alloc' = [pos_alloc EXCEPT ![f.drive_idx] =
                                 free_positions(@, f.parity_pos_start, f.block_count)]
              /\ state_rebuild_pos_index(files', file_list, f.drive_idx)
         ELSE UNCHANGED <<bmVars, pos_alloc, pos_index>>
      /\ handles' = [handles EXCEPT ![h] = OpenHandle(f.vpath, f.drive_idx, ino, FALSE)]
      /\ UNCHANGED <<file_list, unlinking>>

\* lr_create of a new file on the drive d that state_pick_drive chose.
CreateNew(h, path, d) ==
  LET rp  == <<d, path>>
      had == rfs[rp] # NULL
      ino == IF had THEN rfs[rp] ELSE NewInodeFor(path)
      \* calloc returns any free record; the model takes the one numbered
      \* like the path when it is free
      id  == IF PathIndex(path) \in FreeFileIds THEN PathIndex(path)
             ELSE CHOOSE x \in FreeFileIds : \A y \in FreeFileIds : x <= y
      f   == [vpath |-> path, drive_idx |-> d, size |-> 0, block_count |-> 0,
              parity_pos_start |-> alloc_positions(pos_alloc[d], 0).start,
              open_count |-> 1]
  IN  /\ d \notin dead
      /\ rp \notin rdirs
      /\ FreeFileIds # {}
      /\ had \/ FreeInodes # {}
      /\ rfs' = [rfs EXCEPT ![rp] = ino]
      /\ idata' = [idata EXCEPT ![ino] = <<>>]
      /\ files' = [files EXCEPT ![id] = f]
      /\ file_list' = file_list \cup {id}
      /\ state_rebuild_pos_index(files', file_list', d)
      /\ handles' = [handles EXCEPT ![h] = OpenHandle(path, d, ino, FALSE)]
      /\ UNCHANGED <<pos_alloc, bmVars, unlinking>>

lr_create(h, path, trunc, d) ==
  /\ handles[h].st = "free"
  /\ IF state_find_file(path) # NULL
     THEN CreateExisting(h, state_find_file(path), trunc)
     ELSE CreateNew(h, path, d)
  /\ FsFrame

\* lr_open up to the release of the state lock: the record is found and its
\* open count raised; the backing file is not opened yet.
lr_open_begin(h, path, ro) ==
  /\ handles[h].st = "free"
  /\ state_find_file(path) # NULL
  /\ LET id == state_find_file(path)
     IN  /\ files[id].open_count < MaxOpenCount
         /\ files' = [files EXCEPT ![id].open_count = @ + 1]
         /\ handles' = [handles EXCEPT ![h] =
                          [st |-> "opening", vpath |-> path,
                           drive |-> files[id].drive_idx, fd |-> 0, rdonly |-> ro]]
  /\ UNCHANGED <<file_list, pos_index, pos_alloc, unlinking, rfs, idata, bmVars>>
  /\ FsFrame

\* lr_open from open(real) on: a descriptor, a dead-drive handle (fd = -1)
\* for a read-only open when parity exists, or the open count given back.
lr_open_end(h) ==
  LET fh == handles[h]
      rp == <<fh.drive, fh.vpath>>
      ok == fh.drive \notin dead /\ rfs[rp] # NULL
      id == state_find_file(fh.vpath)
  IN  /\ fh.st = "opening"
      /\ IF ok
         THEN /\ handles' = [handles EXCEPT ![h] = [fh EXCEPT !.st = "open", !.fd = rfs[rp]]]
              /\ UNCHANGED files
         ELSE IF fh.rdonly /\ levels > 0
         THEN /\ handles' = [handles EXCEPT ![h] = [fh EXCEPT !.st = "open", !.fd = DeadFd]]
              /\ UNCHANGED files
         ELSE /\ handles' = [handles EXCEPT ![h] = NoHandle]
              /\ files' = IF id # NULL /\ files[id].open_count > 0
                          THEN [files EXCEPT ![id].open_count = @ - 1]
                          ELSE files
      /\ UNCHANGED <<file_list, pos_index, pos_alloc, unlinking, rfs, idata, bmVars>>
      /\ FsFrame

lr_release(h) ==
  LET fh == handles[h]
      id == state_find_file(fh.vpath)
  IN  /\ fh.st = "open"
      /\ handles' = [handles EXCEPT ![h] = NoHandle]
      /\ files' = IF id # NULL /\ files[id].open_count > 0
                  THEN [files EXCEPT ![id].open_count = @ - 1]
                  ELSE files
      /\ UNCHANGED rfs
      /\ idata' = Reclaimed(idata)
      /\ UNCHANGED <<file_list, pos_index, pos_alloc, unlinking, bmVars>>
      /\ FsFrame

\* The allocation part of lr_write2 and lr_truncate when a record grows from
\* old_blocks to new_blocks: the allocator afterwards, the record's start,
\* the range to mark dirty, and whether the allocation failed.
GrowPlan(f, pa, old_blocks, new_blocks) ==
  IF old_blocks = 0
  THEN With(alloc_positions(pa, new_blocks),
         LAMBDA a1 :
           IF a1.start = UINT32_MAX
           THEN [kind |-> "first", failed |-> TRUE, pa |-> pa,
                 start |-> f.parity_pos_start, dirty |-> <<0, 0>>]
           ELSE [kind |-> "first", failed |-> FALSE, pa |-> a1.a,
                 start |-> a1.start, dirty |-> <<a1.start, new_blocks>>])
  ELSE IF U32(f.parity_pos_start + old_blocks) = pa.next_free
  THEN [kind |-> "tail", failed |-> FALSE,
        pa |-> [pa EXCEPT !.next_free = U32(@ + (new_blocks - old_blocks))],
        start |-> f.parity_pos_start,
        dirty |-> <<U32(f.parity_pos_start + old_blocks), new_blocks - old_blocks>>]
  ELSE With(free_positions(pa, f.parity_pos_start, old_blocks),
         LAMBDA pa3 :
           With(alloc_positions(pa3, new_blocks),
             LAMBDA a3 :
               IF a3.start = UINT32_MAX
               THEN [kind |-> "move", failed |-> TRUE, pa |-> pa3,
                     start |-> f.parity_pos_start, dirty |-> <<0, 0>>]
               ELSE [kind |-> "move", failed |-> FALSE, pa |-> a3.a,
                     start |-> a3.start, dirty |-> <<a3.start, new_blocks>>]))

\* The positions of the ranges <<start, count>> of a sequence.
RangePositions(ranges) ==
  UNION {{U32(ranges[i][1] + k) : k \in 0 .. ranges[i][2] - 1} : i \in DOMAIN ranges}

\* The positions that hold the bytes [offset, offset + n) of the file that
\* the descriptor fd is open on, in the file table fs.
WrittenPositions(fs, fd, offset, n) ==
  UNION {{U32(fs[id].parity_pos_start + blk) :
            blk \in {b \in offset \div BlockSize .. (offset + n - 1) \div BlockSize :
                       b < fs[id].block_count}} :
         id \in {x \in file_list : fs[x].vpath # "" /\ rfs[RealOf(fs[x])] = fd}}

\* What a write records: whether the positions of the written bytes were
\* all marked dirty by the call (there is nothing to mark without a journal).
WriteResult(need, marked) ==
  IF journal_on
  THEN [op |-> "write", law |-> TRUE, ok |-> need \subseteq marked]
  ELSE NoResult

\* The state update of lr_write2 for the record id, after pwrite of n bytes
\* through the descriptor fd.
WriteRecord(id, offset, n, fd) ==
  LET f          == files[id]
      old_blocks == f.block_count
      new_end    == offset + n
      new_blocks == blocks_for_size(Max(new_end, f.size), BlockSize)
      grows      == new_blocks > old_blocks
      first_blk  == U32(offset \div BlockSize)
      last_blk   == U32((offset + n - 1) \div BlockSize)
  IN  \E g \in {IF grows
                THEN GrowPlan(f, pos_alloc[f.drive_idx], old_blocks, new_blocks)
                ELSE [kind |-> "none", failed |-> FALSE, pa |-> pos_alloc[f.drive_idx],
                      start |-> f.parity_pos_start, dirty |-> <<0, 0>>]} :
        \E f2 \in {IF ~grows THEN [f EXCEPT !.size = Max(new_end, f.size)]
                    ELSE [f EXCEPT !.size = Max(new_end, f.size),
                                   !.parity_pos_start = g.start,
                                   !.block_count = IF ~g.failed THEN new_blocks
                                                   ELSE IF g.kind = "first" THEN @ ELSE 0]} :
          /\ files' = [files EXCEPT ![id] = f2]
          /\ pos_alloc' = IF grows THEN [pos_alloc EXCEPT ![f.drive_idx] = g.pa]
                          ELSE pos_alloc
          /\ IF grows /\ ~(g.kind = "first" /\ g.failed)
             THEN state_rebuild_pos_index(files', file_list, f.drive_idx)
             ELSE UNCHANGED pos_index
          /\ \E marks \in {IF f2.block_count > 0
                            THEN (IF grows /\ g.dirty[2] > 0 THEN <<g.dirty>> ELSE <<>>)
                                 \o (IF last_blk < f2.block_count
                                     THEN << <<U32(f2.parity_pos_start + first_blk),
                                               U32(last_blk - first_blk + 1)>> >>
                                     ELSE <<>>)
                            ELSE <<>>} :
                /\ MarkRanges(marks)
                /\ result' = WriteResult(WrittenPositions(files', fd, offset, n),
                                         RangePositions(marks))

\* lr_write2 with a successful pwrite of data at offset.
lr_write2(h, data, offset) ==
  LET fh == handles[h]
      id == state_find_file(fh.vpath)
  IN  /\ fh.st = "open"
      /\ fh.fd # DeadFd
      /\ fh.drive \notin dead
      /\ Len(data) > 0
      /\ idata' = [idata EXCEPT ![fh.fd] = PWrite(@, data, offset)]
      /\ IF id # NULL
         THEN WriteRecord(id, offset, Len(data), fh.fd)
         ELSE /\ UNCHANGED <<files, pos_alloc, pos_index, bmVars>>
              /\ result' = WriteResult(WrittenPositions(files, fh.fd, offset, Len(data)), {})
      /\ UNCHANGED <<file_list, handles, unlinking, rfs>>
      /\ FsKeep

lr_truncate(path, size) ==
  LET id         == state_find_file(path)
      f          == files[id]
      rp         == RealOf(f)
      old_blocks == f.block_count
      new_blocks == blocks_for_size(size, BlockSize)
      pa         == pos_alloc[f.drive_idx]
      g          == GrowPlan(f, pa, old_blocks, new_blocks)
      tail       == <<U32(f.parity_pos_start + new_blocks), old_blocks - new_blocks>>
  IN  /\ id # NULL
      /\ f.drive_idx \notin dead /\ rfs[rp] # NULL       \* truncate(real) succeeds
      /\ idata' = [idata EXCEPT ![rfs[rp]] = Truncated(@, size)]
      /\ IF new_blocks > old_blocks
         THEN /\ files' = [files EXCEPT ![id] =
                             [f EXCEPT !.size = size,
                                       !.parity_pos_start = g.start,
                                       !.block_count = IF g.failed /\ g.kind = "move"
                                                       THEN 0 ELSE new_blocks]]
              /\ pos_alloc' = [pos_alloc EXCEPT ![f.drive_idx] = g.pa]
              /\ IF g.failed /\ g.kind = "first"
                 THEN UNCHANGED pos_index
                 ELSE state_rebuild_pos_index(files', file_list, f.drive_idx)
              /\ MarkRanges(IF g.failed THEN <<>> ELSE <<g.dirty>>)
         ELSE /\ files' = [files EXCEPT ![id] =
                             [f EXCEPT !.size = size, !.block_count = new_blocks]]
              /\ pos_alloc' = IF new_blocks < old_blocks
                              THEN [pos_alloc EXCEPT ![f.drive_idx] =
                                      free_positions(@, tail[1], tail[2])]
                              ELSE pos_alloc
              /\ state_rebuild_pos_index(files', file_list, f.drive_idx)
              /\ MarkRanges(IF new_blocks < old_blocks THEN <<tail>> ELSE <<>>)
      /\ UNCHANGED <<file_list, handles, unlinking, rfs>>
      /\ FsFrame

\* lr_unlink under the state lock; unlink(real) follows in lr_unlink_end.
lr_unlink(path) ==
  LET id == state_find_file(path)
      f  == files[id]
  IN  /\ id # NULL
      /\ files' = [files EXCEPT ![id] = NoFile]
      /\ file_list' = file_list \ {id}
      /\ MarkRanges(IF f.block_count > 0
                    THEN << <<f.parity_pos_start, f.block_count>> >> ELSE <<>>)
      /\ pos_alloc' = [pos_alloc EXCEPT ![f.drive_idx] =
                         free_positions(@, f.parity_pos_start, f.block_count)]
      /\ state_rebuild_pos_index(files', file_list', f.drive_idx)
      /\ unlinking' = unlinking \cup {RealOf(f)}
      /\ UNCHANGED <<handles, rfs, idata>>
      /\ FsFrame

lr_unlink_end(rp) ==
  /\ rp \in unlinking
  /\ unlinking' = unlinking \ {rp}
  /\ rfs' = IF rp[1] \notin dead THEN [rfs EXCEPT ![rp] = NULL] ELSE rfs
  /\ UNCHANGED handles
  /\ idata' = Reclaimed(idata)
  /\ UNCHANGED <<files, file_list, pos_index, pos_alloc, bmVars>>
  /\ FsFrame

\* rename(old_real, new_real) of lr_rename succeeds: the drive is readable,
\* the backing file is there and the new path is no directory on the drive.
RenameSucceeds(from, to) ==
  LET f == files[state_find_file(from)]
  IN  /\ f.drive_idx \notin dead
      /\ rfs[RealOf(f)] # NULL
      /\ <<f.drive_idx, to>> \notin rdirs

\* The rollback of lr_rename when rename(old_real, new_real) failed: the
\* record, already given the new vpath and real path, gets the old ones back
\* (the real path of a record is its drive and its vpath) before it is
\* inserted again.
RenameRollbackNone(fs, id, from) == fs
RenameRollback(fs, id, from) == [fs EXCEPT ![id].vpath = from]

\* lr_rename of a regular file to another path, past the flag checks.
RenameFile(from, to) ==
  LET id       == state_find_file(from)
      f        == files[id]
      existing == state_find_file(to)
      e        == files[existing]
      old_real == RealOf(f)
      new_real == <<f.drive_idx, to>>
      fl1      == file_list \ {id}
      fl2      == fl1 \ {existing}
      fs2      == [x \in FileIds |->
                     IF x = id THEN [f EXCEPT !.vpath = to]
                     ELSE IF x = existing THEN NoFile ELSE files[x]]
  IN  /\ UNCHANGED <<handles, unlinking>>
      /\ IF ~RenameSucceeds(from, to)
         THEN /\ files' = RenameRollback([files EXCEPT ![id].vpath = to], id, from)
              /\ file_list' = fl1 \cup {id}
              /\ UNCHANGED <<pos_index, pos_alloc, rfs, idata, bmVars>>
         ELSE /\ rfs' = [rfs EXCEPT ![old_real] = NULL, ![new_real] = rfs[old_real]]
              /\ files' = fs2
              /\ file_list' = fl2 \cup {id}
              /\ IF existing # NULL /\ e.block_count > 0
                 THEN /\ MarkRanges(<< <<e.parity_pos_start, e.block_count>> >>)
                      /\ pos_alloc' = [pos_alloc EXCEPT ![e.drive_idx] =
                                         free_positions(@, e.parity_pos_start, e.block_count)]
                      \* f is off the list while the index is rebuilt
                      /\ state_rebuild_pos_index(fs2, fl2, e.drive_idx)
                 ELSE UNCHANGED <<pos_index, pos_alloc, bmVars>>
              /\ idata' = Reclaimed(idata)

\* lr_rename of a regular file; rename(old_real, new_real) fails when the
\* drive is unreadable or the backing file is gone.
lr_rename(from, to, noreplace) ==
  /\ state_find_file(from) # NULL
  /\ from # to
  /\ ~(noreplace /\ state_find_file(to) # NULL)
  /\ RenameFile(from, to)
  /\ FsFrame

(***************************************************************************)
(* Parity operations as steps                                              *)
(***************************************************************************)
\* A drive becomes unreadable: its backing files can no longer be opened,
\* read or written.  At most `levels` drives are lost.
DriveFails(d) ==
  /\ d \notin dead
  /\ Cardinality(dead) < levels
  /\ dead' = dead \cup {d}
  /\ at_loss' = IF d \in DOMAIN at_loss
                THEN [at_loss EXCEPT ![d] = [consistent |-> fresh, drained |-> {}]]
                ELSE at_loss
  /\ result' = NoResult
  /\ UNCHANGED <<cfgVars, fsVars, bmVars, parity, fresh, jcVars, alVars, nsVars, ctrl_line,
                 stVars, restVars, lkVars, jVars, rbVars>>

\* parity_update_position(pos), called with the state read lock held.
UpdatePosition(pos) ==
  /\ parity_update_position(pos)
  /\ fresh' = IF dead = {} THEN fresh \cup {pos} ELSE fresh \ {pos}
  /\ at_loss' = [d \in DOMAIN at_loss |->
                   IF d \in dead THEN [at_loss[d] EXCEPT !.drained = @ \cup {pos}]
                   ELSE at_loss[d]]
  /\ result' = NoResult
  /\ UNCHANGED <<cfgVars, fsVars, bmVars, dead, jcVars, alVars, nsVars, ctrl_line, stVars,
                 restVars, lkVars, jVars, rbVars>>

\* parity_recover_block(d, pos), called with the state read lock held.  The
\* result records whether the parity law applies (pos was encoded from
\* readable drives, its blocks are unchanged since, d is lost) and whether
\* the call returned drive d's block; and whether pos was consistent when
\* d was lost and has been drained since, the parity being the one that the
\* last drain wrote.
RecoverBlock(d, pos) ==
  \E r \in {parity_recover_block(d, pos)} :
      /\ result' = [op |-> "recover",
                    law |-> pos \in fresh /\ d \in dead,
                    redrained |-> /\ d \in dead
                                  /\ d \in DOMAIN at_loss
                                  /\ pos \in at_loss[d].consistent
                                  /\ pos \in at_loss[d].drained
                                  /\ \A l \in 0 .. levels - 1 :
                                        parity[l][pos] = EncodedParity(pos)[l],
                    ok |-> r.rc = 0 /\ r.buf = TrueBlock(d, pos)]
      /\ UNCHANGED <<cfgVars, fsVars, bmVars, dead, parity, fresh, jcVars, alVars, extVars, jVars, rbVars>>

\* The bytes [offset, min(offset + size, length)) of a byte sequence.
Bytes(content, offset, size) ==
  SubSeq(content, offset + 1, Min(offset + size, Len(content)))

\* lr_read through the handle h.  The result records whether the backing
\* file is unavailable with parity up to date on all the file's positions,
\* and whether the call returned the bytes of the file.
Read(h, size, offset) ==
  LET fh  == handles[h]
      id  == state_find_file(fh.vpath)
      f   == files[id]
      ino == rfs[RealOf(f)]
  IN  /\ fh.st = "open"
      /\ id # NULL /\ ino # NULL
      /\ \E r \in {lr_read(h, size, offset)}, want \in {Bytes(idata[ino], offset, size)} :
            result' = [op |-> "read",
                       law |-> /\ fh.fd = DeadFd \/ fh.drive \in dead
                               /\ RangeOf(f) \subseteq fresh
                               /\ Len(idata[ino]) = f.size,
                       ok |-> r.ret = Len(want) /\ r.data = want]
      /\ UNCHANGED <<cfgVars, fsVars, bmVars, dead, parity, fresh, jcVars, alVars, extVars, jVars, rbVars>>

(***************************************************************************)
(* Initial states                                                          *)
(***************************************************************************)
Flushers     == 1 .. MaxFlushers
NoBitmapFile == [exists |-> FALSE, bits |-> {}, magic |-> "", words |-> 0, body |-> 0]
NoRebuild    == [drive |-> 0, total |-> 0, vpath |-> "", pos_start |-> 0,
                 block_count |-> 0, file_size |-> 0, fd |-> NULL, blk |-> 0]

\* The history at_loss is kept for the drives in its domain: for none of
\* them, or for the drives 0 .. nd - 1.
NoLossHistory == at_loss = <<>>
LossHistory(nd) == at_loss = [d \in 0 .. nd - 1 |-> [consistent |-> {}, drained |-> {}]]

InitCore(nd, np, jon, nt, bp, ops) ==
  /\ budget = ops
  /\ rr_next = 0
  /\ calls = 0
  /\ parity_dead = {}
  /\ parity_ro = {}
  /\ scrub_pending = 0
  /\ repair_pending = 0
  /\ do_repair = 0
  /\ repair_owed = FALSE
  /\ state_lock = [t \in LockThreads |-> "none"]
  /\ bitmap_lock = "none"
  /\ lock_pc = [t \in LockThreads |-> [fn |-> "idle", at |-> 1]]
  /\ held = {}
  /\ symlinks = {}
  /\ dirs = {}
  /\ rdirs = {}
  /\ ctrl_line = ""
  /\ nthreads = nt
  /\ bitmap_path = bp
  /\ running = 1
  /\ processing = 0
  /\ wpc = "wait"
  /\ batch = <<>>
  /\ bitmap_file = NoBitmapFile
  /\ fl_pc = [t \in Flushers |-> "idle"]
  /\ fl_owed = [t \in Flushers |-> {}]
  /\ fl_had = [t \in Flushers |-> FALSE]
  /\ destroy_pc = "mounted"
  /\ unlinked = FALSE
  /\ rb_pc = "idle"
  /\ rb_todo = <<>>
  /\ rb_cur = NoRebuild
  /\ rb_out = <<>>
  /\ rb_count = [rebuilt |-> 0, failed |-> 0, skipped |-> 0]
  /\ drive_count = nd
  /\ levels = np
  /\ journal_on = jon
  /\ files = [id \in FileIds |-> NoFile]
  /\ file_list = {}
  /\ pos_index = [d \in 0 .. nd - 1 |-> <<>>]
  /\ pos_alloc = [d \in 0 .. nd - 1 |-> alloc_init]
  /\ handles = [h \in HandleIds |-> NoHandle]
  /\ unlinking = {}
  /\ rfs = [rp \in (0 .. nd - 1) \X AllPaths |-> NULL]
  /\ idata = [i \in InodeIds |-> <<>>]
  /\ dead = {}
  /\ parity = [l \in 0 .. np - 1 |-> [p \in Positions |-> ZeroBlock]]
  /\ fresh = {}
  /\ result = NoResult
  /\ bitmap = {}
  /\ bitmap_words = 0

\* config_init: the placement policy defaults to most free space.
InitBase(nd, np, jon, nt, bp, ops) ==
  /\ InitCore(nd, np, jon, nt, bp, ops)
  /\ NoLossHistory
  /\ placement_policy = LR_PLACE_MOSTFREE

NoMeta == [alloc |-> <<>>, files |-> <<>>, dirs |-> <<>>, symlinks |-> <<>>]

InitState(nd, np, jon, nt, bp, ops) ==
  /\ InitBase(nd, np, jon, nt, bp, ops)
  /\ mstate = NoMeta

(***************************************************************************)
(* SpecParity: files with contents, encode, drive loss, recovery           *)
(***************************************************************************)
MaxFileBytes == 2                 \* largest file of SpecParity, in bytes
\* The data written at an offset of a path: every length that fits, the
\* byte at each offset of each path a value of its own.
WriteData(path, offset) ==
  {[k \in 1 .. n |-> 16 * PathIndex(path) + offset + k] : n \in 1 .. MaxFileBytes - offset}
UsedPositions == 0 .. (MaxFileBytes + BlockSize - 1) \div BlockSize

DriveBytes == 8                   \* capacity of a data drive, in bytes
DataPaths  == {"/b"}              \* the files that are written and read
ParityHandles == {1}              \* the handle SpecParity works through

\* What statvfs reports: the capacity less the bytes of the backing files.
RECURSIVE SumLen(_)
SumLen(S) ==
  IF S = {} THEN 0
  ELSE LET i == CHOOSE x \in S : TRUE IN Len(idata[i]) + SumLen(S \ {i})

StatFree ==
  [d \in Drives |->
     Max(0, DriveBytes - SumLen({rfs[rp] : rp \in {q \in RealPaths : q[1] = d}} \ {NULL}))]

InitParity ==
  \E np \in 1 .. 2 : InitState(2, np, FALSE, 1, FALSE, <<>>)

NextParity ==
  \/ \E h \in ParityHandles, path \in VPaths :
        lr_create(h, path, FALSE, state_pick_drive(StatFree, drive_count))
  \/ \E h \in ParityHandles, path \in DataPaths : lr_open_begin(h, path, TRUE)
  \/ \E h \in ParityHandles : lr_open_end(h)
  \/ \E h \in ParityHandles : lr_release(h)
  \/ \E h \in ParityHandles, offset \in 0 .. MaxFileBytes - 1 :
        /\ handles[h].st = "open" /\ handles[h].vpath \in DataPaths
        /\ \E data \in WriteData(handles[h].vpath, offset) : lr_write2(h, data, offset)
  \/ \E d \in Drives : DriveFails(d)
  \/ \E pos \in UsedPositions : UpdatePosition(pos)
  \/ \E d \in Drives, pos \in UsedPositions : RecoverBlock(d, pos)
  \/ \E h \in ParityHandles, size \in 1 .. MaxFileBytes + 1, offset \in 0 .. MaxFileBytes :
        Read(h, size, offset)

SpecParity == InitParity /\ [][NextParity]_vars

\* C1 (parity law): when parity_update_position(pos) has written parity from
\* readable drives, no block at pos has changed since, and at most `levels`
\* drives are lost, parity_recover_block(d, pos) for a lost drive d succeeds
\* and returns the zero-padded block that drive d holds at pos.
C1_RecoverReturnsBlock ==
  (result.op = "recover" /\ result.law) => result.ok

\* C2 (recovery read equals direct read): when the backing file of an open
\* file is unavailable and every position of the file has up-to-date
\* parity, lr_read(offset, size) returns exactly the bytes
\* [offset, min(offset + size, file size)) of the file.
C2_RecoveryReadEqualsDirect ==
  (result.op = "read" /\ result.law) => result.ok

(***************************************************************************)
(* SpecFs: the file table under create, open, write, truncate, unlink and  *)
(* rename on one drive                                                     *)
(***************************************************************************)
MaxOps == 8                       \* filesystem operations in a run of SpecFs
MaxWriteBytes == 1                \* longest write, in bytes
FsOffsets  == {0, 3}              \* the offsets written at
FsSizes    == {0, 3, 12}          \* the sizes SpecFs truncates to
FsPaths    == {"/a", "/b"}        \* the paths of SpecFs and SpecWrite
FsHandles  == {1}                 \* the handle they work through
Zeros(n)   == [k \in 1 .. n |-> 0]

InitFs == InitState(1, 1, FALSE, 1, FALSE, <<MaxOps>>)

NextFs ==
  \/ \E h \in FsHandles, path \in FsPaths, trunc \in BOOLEAN :
        lr_create(h, path, trunc, state_pick_drive(StatFree, drive_count))
  \/ \E h \in FsHandles, path \in FsPaths : lr_open_begin(h, path, FALSE)
  \/ \E h \in FsHandles : lr_open_end(h)
  \/ \E h \in FsHandles : lr_release(h)
  \/ \E h \in FsHandles, offset \in FsOffsets, n \in 1 .. MaxWriteBytes :
        lr_write2(h, Zeros(n), offset)
  \/ \E path \in FsPaths, size \in FsSizes : lr_truncate(path, size)
  \/ \E path \in FsPaths : lr_unlink(path)
  \/ \E rp \in RealPaths : lr_unlink_end(rp)
  \/ \E from \in FsPaths, to \in FsPaths, noreplace \in BOOLEAN :
        lr_rename(from, to, noreplace)

SpecFs == InitFs /\ [][NextFs]_vars

\* C3 (no overlap): no two file records on the same data drive have
\* overlapping position ranges [parity_pos_start, parity_pos_start + block_count).
C3_NoOverlap ==
  \A a \in file_list, b \in file_list :
     (a # b /\ files[a].drive_idx = files[b].drive_idx)
       => \/ files[a].block_count = 0 \/ files[b].block_count = 0
          \/ files[a].parity_pos_start + files[a].block_count <= files[b].parity_pos_start
          \/ files[b].parity_pos_start + files[b].block_count <= files[a].parity_pos_start

\* C10 (block count): every file record has block_count = ceil(size / block_size).
C10_BlockCountLaw ==
  \A id \in file_list : files[id].block_count = blocks_for_size(files[id].size, BlockSize)

(***************************************************************************)
(* SpecWrite: writes through handles that outlive renames, the journal     *)
(* attached                                                                *)
(***************************************************************************)
InitWrite == InitState(1, 1, TRUE, 1, FALSE, <<>>)

NextWrite ==
  \/ \E h \in FsHandles, path \in FsPaths :
        lr_create(h, path, FALSE, state_pick_drive(StatFree, drive_count))
  \/ \E h \in FsHandles, path \in FsPaths : lr_open_begin(h, path, FALSE)
  \/ \E h \in FsHandles : lr_open_end(h)
  \/ \E h \in FsHandles : lr_release(h)
  \/ \E h \in FsHandles, offset \in FsOffsets, n \in 1 .. MaxWriteBytes :
        lr_write2(h, Zeros(n), offset)
  \/ \E from \in FsPaths, to \in FsPaths : lr_rename(from, to, FALSE)

SpecWrite == InitWrite /\ [][NextWrite]_vars

\* C4 (write marks dirty): a write that succeeds through an open handle has
\* marked, when it returns, every position of the file's range that holds
\* written bytes, whatever renames happened since the handle was opened.
C4_WriteMarksDirty ==
  (result.op = "write" /\ result.law) => result.ok

(***************************************************************************)
(* Journal (journal.c): dirty bitmap, worker thread, flush, shutdown       *)
(***************************************************************************)
JournalFrame ==
  /\ result' = NoResult
  /\ UNCHANGED <<cfgVars, fsVars, dead, jcVars, alVars, extVars, rbVars>>

\* The positions still to encode in the batch the worker swapped out.
BatchPositions == UNION {Range(batch[t]) : t \in DOMAIN batch}

\* A FUSE handler marks a range dirty.  Handlers run only while mounted.
MarkDirty(start, count) ==
  /\ destroy_pc = "mounted"
  /\ journal_mark_dirty_range(start, count)
  /\ UNCHANGED <<parity, fresh, jVars>>
  /\ JournalFrame

\* journal_bitmap_save: the file becomes a copy of the bitmap (the magic,
\* the word count and a body of that many words), and is removed when no
\* bit is set; nothing happens without a bitmap path.
journal_bitmap_save ==
  IF ~bitmap_path THEN bitmap_file
  ELSE IF bitmap_words = 0 \/ bitmap = {} THEN NoBitmapFile
  ELSE [exists |-> TRUE, bits |-> bitmap, magic |-> "LRBM",
        words |-> bitmap_words, body |-> bitmap_words]

\* pthread_cond_timedwait returns (signalled or timed out); the worker
\* leaves its loop when running was cleared.
worker_wake ==
  /\ wpc = "wait"
  /\ wpc' = IF running = 0 THEN "exit" ELSE "save"
  /\ UNCHANGED <<running, processing, batch, bitmap_file, fl_pc, fl_owed, fl_had,
                 destroy_pc, unlinked>>
  /\ UNCHANGED <<bmVars, parity, fresh>>
  /\ JournalFrame

\* The periodic save, taken only when save_interval_s has elapsed since the
\* last one (due).
worker_save(due) ==
  /\ wpc = "save"
  /\ wpc' = "swap"
  /\ bitmap_file' = IF due THEN journal_bitmap_save ELSE bitmap_file
  /\ UNCHANGED <<running, processing, batch, fl_pc, fl_owed, fl_had, destroy_pc, unlinked>>
  /\ UNCHANGED <<bmVars, parity, fresh>>
  /\ JournalFrame

\* The split of the swapped-out positions over the drain threads.
Chunks(bits) ==
  LET ps        == SortedSeq(bits)
      pos_count == Len(ps)
      nt0       == IF nthreads > 0 THEN nthreads ELSE 1
      nt        == IF nt0 > pos_count /\ pos_count > 0 THEN pos_count ELSE nt0
      chunk     == (pos_count + nt - 1) \div nt
  IN  IF pos_count = 0 THEN <<>>
      ELSE IF nt0 <= 1 THEN <<ps>>
      ELSE [t \in 1 .. nt |->
              SubSeq(ps, (t - 1) * chunk + 1, Min(t * chunk, pos_count))]

\* j->processing as the swap leaves it, set under the bitmap lock.
SwapProcessingUnset(has_bits) == processing
SwapProcessing(has_bits) == IF has_bits THEN 1 ELSE processing

\* The bitmap is swapped out under the bitmap lock.
worker_swap ==
  /\ wpc = "swap"
  /\ wpc' = "drain"
  /\ batch' = Chunks(bitmap)
  /\ bitmap' = {}
  /\ bitmap_words' = 0
  /\ processing' = SwapProcessing(bitmap # {})
  /\ UNCHANGED <<running, bitmap_file, fl_pc, fl_owed, fl_had, destroy_pc, unlinked>>
  /\ UNCHANGED <<parity, fresh>>
  /\ JournalFrame

\* One drain thread encodes its next position under the state read lock.
worker_drain(t) ==
  /\ wpc = "drain"
  /\ t \in DOMAIN batch
  /\ batch[t] # <<>>
  /\ LET pos == Head(batch[t])
     IN  /\ parity_update_position(pos)
         /\ fresh' = IF dead = {} THEN fresh \cup {pos} ELSE fresh \ {pos}
         /\ fl_owed' = [f \in Flushers |-> fl_owed[f] \ {pos}]
  /\ batch' = [batch EXCEPT ![t] = Tail(@)]
  /\ UNCHANGED <<running, processing, wpc, bitmap_file, fl_pc, fl_had, destroy_pc, unlinked>>
  /\ UNCHANGED bmVars
  /\ JournalFrame

\* pthread_cond_broadcast(&j->drain_cond): every flusher blocked in
\* pthread_cond_wait goes back to the test of its loop.
DrainBroadcastNone == fl_pc
DrainBroadcast ==
  [f \in DOMAIN fl_pc |-> IF fl_pc[f] = "blocked" THEN "waiting" ELSE fl_pc[f]]

\* All drain threads are done: processing is cleared and the flush waiters
\* are woken.  The worker goes on to the test of the scrub and repair flags
\* (next = "check"); where no request is ever raised the test finds both
\* clear and the worker is back at its wait (next = "wait").
WorkerFinish(next) ==
  /\ wpc = "drain"
  /\ BatchPositions = {}
  /\ processing' = 0
  /\ batch' = <<>>
  /\ wpc' = next
  /\ fl_pc' = DrainBroadcast
  /\ UNCHANGED <<running, bitmap_file, fl_owed, fl_had, destroy_pc, unlinked>>
  /\ UNCHANGED <<bmVars, parity, fresh>>
  /\ JournalFrame

worker_finish == WorkerFinish("wait")

bitmap_is_empty == bitmap_words = 0 \/ bitmap = {}

\* journal_flush up to its first wait: the worker is signalled.
journal_flush_call(f) ==
  /\ destroy_pc = "mounted"
  /\ fl_pc[f] \notin {"waiting", "blocked"}
  /\ fl_pc' = [fl_pc EXCEPT ![f] = "waiting"]
  /\ fl_owed' = [fl_owed EXCEPT ![f] = bitmap \cup BatchPositions]
  /\ fl_had' = [fl_had EXCEPT ![f] = bitmap \cup BatchPositions # {}]
  /\ UNCHANGED <<running, processing, wpc, batch, bitmap_file, destroy_pc, unlinked>>
  /\ UNCHANGED <<bmVars, parity, fresh>>
  /\ JournalFrame

\* journal_flush returns when it finds processing clear and the bitmap empty.
journal_flush_return(f) ==
  /\ fl_pc[f] = "waiting"
  /\ ~(processing # 0 \/ ~bitmap_is_empty)
  /\ fl_pc' = [fl_pc EXCEPT ![f] = "returned"]
  /\ UNCHANGED <<running, processing, wpc, batch, bitmap_file, fl_owed, fl_had,
                 destroy_pc, unlinked>>
  /\ UNCHANGED <<bmVars, parity, fresh>>
  /\ JournalFrame

\* lr_destroy: journal_flush, then journal_done.
lr_destroy_flush ==
  /\ destroy_pc = "mounted"
  /\ \A f \in Flushers : fl_pc[f] # "waiting"
  /\ rb_pc \in {"idle", "done"}
  /\ destroy_pc' = "flush"
  /\ UNCHANGED <<running, processing, wpc, batch, bitmap_file, fl_pc, fl_owed, fl_had, unlinked>>
  /\ UNCHANGED <<bmVars, parity, fresh>>
  /\ JournalFrame

lr_destroy_flushed ==
  /\ destroy_pc = "flush"
  /\ ~(processing # 0 \/ ~bitmap_is_empty)
  /\ destroy_pc' = "stop"
  /\ UNCHANGED <<running, processing, wpc, batch, bitmap_file, fl_pc, fl_owed, fl_had, unlinked>>
  /\ UNCHANGED <<bmVars, parity, fresh>>
  /\ JournalFrame

\* journal_done: running is cleared and the worker signalled.
journal_done_stop ==
  /\ destroy_pc = "stop"
  /\ running' = 0
  /\ destroy_pc' = "join"
  /\ UNCHANGED <<processing, wpc, batch, bitmap_file, fl_pc, fl_owed, fl_had, unlinked>>
  /\ UNCHANGED <<bmVars, parity, fresh>>
  /\ JournalFrame

\* The bitmap file as journal_done leaves it after joining the worker.
journal_done_keep == bitmap_file
journal_done_unlink == IF bitmap_path THEN NoBitmapFile ELSE bitmap_file

\* journal_done: pthread_join returns once the worker has left its loop;
\* then the bitmap file is removed.
journal_done_join ==
  /\ destroy_pc = "join"
  /\ wpc = "exit"
  /\ bitmap_file' = journal_done_unlink
  /\ unlinked' = (bitmap_path /\ bitmap_file.exists)
  /\ destroy_pc' = "done"
  /\ UNCHANGED <<running, processing, wpc, batch, fl_pc, fl_owed, fl_had>>
  /\ UNCHANGED <<bmVars, parity, fresh>>
  /\ JournalFrame

(***************************************************************************)
(* SpecJournal: the journal by itself, marked by the FUSE handlers          *)
(***************************************************************************)
MarkPositions == 2       \* positions the handlers of SpecJournal mark dirty

InitJournal ==
  \E nt \in 1 .. 2, bp \in BOOLEAN : InitState(1, 1, TRUE, nt, bp, <<>>)

NextJournal ==
  \/ \E start \in 0 .. MarkPositions - 1, count \in 1 .. MarkPositions :
        start + count <= MarkPositions /\ MarkDirty(start, count)
  \/ worker_wake
  \/ \E due \in BOOLEAN : worker_save(due)
  \/ worker_swap
  \/ \E t \in 1 .. 2 : worker_drain(t)
  \/ worker_finish
  \/ \E f \in Flushers : journal_flush_call(f)
  \/ \E f \in Flushers : journal_flush_return(f)
  \/ lr_destroy_flush
  \/ lr_destroy_flushed
  \/ journal_done_stop
  \/ journal_done_join

SpecJournal == InitJournal /\ [][NextJournal]_vars

\* C5 (flush completeness): when journal_flush returns, every position that
\* was dirty when it was called has been encoded since; and while positions
\* of a swapped-out batch are still to be encoded, processing is set, so a
\* flusher cannot find the bitmap empty and the worker idle.
C5_FlushDrainsAll ==
  /\ \A f \in Flushers : fl_pc[f] = "returned" => fl_owed[f] = {}
  /\ BatchPositions # {} => processing = 1

\* A flush that was called with dirty positions has returned.
C5_FlushReturned ==
  \E f \in Flushers : fl_pc[f] = "returned" /\ fl_had[f] /\ fl_owed[f] = {}

\* C6 (save before drain): whenever the worker swaps out a bitmap with bits
\* set, every set position is already in the bitmap file on disk.
C6_SavedBeforeSwap ==
  [][(bitmap_path /\ wpc = "swap" /\ wpc' = "drain" /\ bitmap # {})
       => (bitmap_file.exists /\ bitmap \subseteq bitmap_file.bits)]_vars

\* C9 (clean shutdown): after lr_destroy has run journal_flush and
\* journal_done, the bitmap file does not exist.
C9_NoBitmapAfterShutdown ==
  destroy_pc = "done" => ~bitmap_file.exists

\* A shutdown whose journal_done removed a bitmap file that a save had written.
C9_ShutdownRemovedFile ==
  destroy_pc = "done" /\ unlinked /\ ~bitmap_file.exists

(***************************************************************************)
(* Live rebuild (ctrl.c): 'rebuild <drive>' on the control socket, while   *)
(* the filesystem is mounted                                               *)
(***************************************************************************)
RebuildFrame ==
  /\ result' = NoResult
  /\ UNCHANGED <<cfgVars, files, file_list, pos_index, pos_alloc, handles, unlinking,
                 dead, parity, fresh, bmVars, jcVars, alVars, extVars, jVars>>

Counted(field) == [rb_count EXCEPT ![field] = @ + 1]

\* if (f->open_count > 0): the file is busy
IsBusyNever(f) == FALSE
IsBusy(f)      == f.open_count > 0

\* live_do_rebuild up to its loop: the vpaths of the files of the drive are
\* snapshotted in list order under the read lock.
RebuildSnapshot(d) ==
  /\ rb_pc = "idle"
  /\ \E todo \in Perms({files[id].vpath : id \in {x \in file_list : files[x].drive_idx = d}}) :
        /\ rb_todo' = todo
        /\ rb_cur' = [NoRebuild EXCEPT !.drive = d, !.total = Len(todo)]
        /\ rb_out' = <<<<"progress", 0, Len(todo)>>>>
  /\ rb_pc' = "next"
  /\ UNCHANGED <<rb_count, rfs, idata>>

live_do_rebuild(d) == RebuildSnapshot(d) /\ RebuildFrame

\* One iteration of the loop up to the release of the read lock in
\* live_rebuild_one_file: the record is looked up again, a busy file skipped.
live_rebuild_resolve ==
  /\ rb_pc = "next" /\ rb_todo # <<>>
  /\ LET vpath == Head(rb_todo)
         id    == state_find_file(vpath)
         line  == <<"progress", rb_cur.total - Len(rb_todo) + 1, rb_cur.total, vpath>>
     IN  /\ rb_todo' = Tail(rb_todo)
         /\ IF id = NULL \/ files[id].drive_idx # rb_cur.drive
            THEN /\ rb_out' = Append(rb_out, line)
                 /\ rb_count' = Counted("skipped")
                 /\ UNCHANGED <<rb_pc, rb_cur>>
            ELSE IF IsBusy(files[id])
            THEN /\ rb_out' = rb_out \o <<line, <<"skip", vpath, "busy">>>>
                 /\ rb_count' = Counted("skipped")
                 /\ UNCHANGED <<rb_pc, rb_cur>>
            ELSE /\ rb_out' = Append(rb_out, line)
                 /\ rb_cur' = [rb_cur EXCEPT !.vpath = vpath,
                                             !.pos_start = files[id].parity_pos_start,
                                             !.block_count = files[id].block_count,
                                             !.file_size = files[id].size,
                                             !.fd = NULL, !.blk = 0]
                 /\ rb_pc' = "open"
                 /\ UNCHANGED rb_count
  /\ UNCHANGED <<rfs, idata>>
  /\ RebuildFrame

\* open(real_path, O_WRONLY | O_CREAT | O_TRUNC)
live_rebuild_open ==
  /\ rb_pc = "open"
  /\ LET rp  == <<rb_cur.drive, rb_cur.vpath>>
         ino == IF rfs[rp] # NULL THEN rfs[rp] ELSE NewInodeFor(rb_cur.vpath)
     IN  IF rb_cur.drive \in dead \/ (rfs[rp] = NULL /\ FreeInodes = {})
         THEN /\ rb_out' = Append(rb_out, <<"fail", rb_cur.vpath, "cannot create">>)
              /\ rb_count' = Counted("failed")
              /\ rb_pc' = "next"
              /\ UNCHANGED <<rb_cur, rfs, idata>>
         ELSE /\ rfs' = [rfs EXCEPT ![rp] = ino]
              /\ idata' = [idata EXCEPT ![ino] = <<>>]
              /\ rb_cur' = [rb_cur EXCEPT !.fd = ino]
              /\ rb_pc' = "blocks"
              /\ UNCHANGED <<rb_out, rb_count>>
  /\ UNCHANGED rb_todo
  /\ RebuildFrame

\* unlink(real_path) and close(fd) after a failed rebuild
RebuildUnlinked ==
  LET rp == <<rb_cur.drive, rb_cur.vpath>>
      r2 == IF rb_cur.drive \in dead THEN rfs ELSE [rfs EXCEPT ![rp] = NULL]
  IN  /\ rfs' = r2
      /\ idata' = [i \in InodeIds |->
                     IF /\ \A q \in RealPaths : r2[q] # i
                        /\ \A h \in HandleIds : ~(handles[h].st = "open" /\ handles[h].fd = i)
                     THEN <<>> ELSE idata[i]]

\* One block: parity_recover_block under the read lock, then pwrite.
live_rebuild_block ==
  /\ rb_pc = "blocks" /\ rb_cur.blk < rb_cur.block_count
  /\ \E r \in {parity_recover_block(rb_cur.drive, U32(rb_cur.pos_start + rb_cur.blk))} :
       LET bs        == BlockSize
           tail      == rb_cur.file_size % bs
           write_len == IF rb_cur.blk = rb_cur.block_count - 1 /\ rb_cur.file_size > 0
                           /\ tail # 0
                        THEN tail ELSE bs
       IN  IF r.rc # 0
           THEN /\ rb_out' = Append(rb_out, <<"fail", rb_cur.vpath, "parity error", rb_cur.blk>>)
                /\ RebuildUnlinked
                /\ rb_count' = Counted("failed")
                /\ rb_cur' = [rb_cur EXCEPT !.fd = NULL]
                /\ rb_pc' = "next"
           ELSE IF rb_cur.drive \in dead
           THEN /\ rb_out' = Append(rb_out, <<"fail", rb_cur.vpath, "write error", rb_cur.blk>>)
                /\ RebuildUnlinked
                /\ rb_count' = Counted("failed")
                /\ rb_cur' = [rb_cur EXCEPT !.fd = NULL]
                /\ rb_pc' = "next"
           ELSE /\ idata' = [idata EXCEPT ![rb_cur.fd] =
                               PWrite(@, SubSeq(r.buf, 1, write_len), rb_cur.blk * bs)]
                /\ rb_cur' = [rb_cur EXCEPT !.blk = U32(@ + 1)]
                /\ UNCHANGED <<rfs, rb_out, rb_count, rb_pc>>
  /\ UNCHANGED rb_todo
  /\ RebuildFrame

\* After the last block: close(fd), the metadata restored, "ok <vpath>".
live_rebuild_finish ==
  /\ rb_pc = "blocks" /\ ~(rb_cur.blk < rb_cur.block_count)
  /\ rb_out' = Append(rb_out, <<"ok", rb_cur.vpath>>)
  /\ rb_count' = Counted("rebuilt")
  /\ rb_cur' = [rb_cur EXCEPT !.fd = NULL]
  /\ rb_pc' = "next"
  /\ rfs' = rfs
  /\ idata' = [i \in InodeIds |->
                 IF /\ \A q \in RealPaths : rfs[q] # i
                    /\ \A h \in HandleIds : ~(handles[h].st = "open" /\ handles[h].fd = i)
                 THEN <<>> ELSE idata[i]]
  /\ UNCHANGED rb_todo
  /\ RebuildFrame

\* The end of live_do_rebuild: "done <rebuilt> <failed> skipped=<skipped>".
live_do_rebuild_done ==
  /\ rb_pc = "next" /\ rb_todo = <<>>
  /\ rb_out' = Append(rb_out, <<"done", rb_count.rebuilt, rb_count.failed, rb_count.skipped>>)
  /\ rb_pc' = "done"
  /\ UNCHANGED <<rb_todo, rb_cur, rb_count, rfs, idata>>
  /\ RebuildFrame

MaxRebuildOps == 6                \* filesystem operations in a run of SpecRebuild

InitRebuild == InitState(1, 1, FALSE, 1, FALSE, <<MaxRebuildOps>>)

NextRebuild ==
  \/ \E h \in FsHandles, path \in FsPaths :
        lr_create(h, path, FALSE, state_pick_drive(StatFree, drive_count))
  \/ \E h \in FsHandles, path \in FsPaths : lr_open_begin(h, path, FALSE)
  \/ \E h \in FsHandles : lr_open_end(h)
  \/ \E h \in FsHandles : lr_release(h)
  \/ \E h \in FsHandles, offset \in FsOffsets, n \in 1 .. MaxWriteBytes :
        lr_write2(h, Zeros(n), offset)
  \/ \E d \in Drives : live_do_rebuild(d)
  \/ live_rebuild_resolve
  \/ live_rebuild_open
  \/ live_rebuild_block
  \/ live_rebuild_finish
  \/ live_do_rebuild_done

SpecRebuild == InitRebuild /\ [][NextRebuild]_vars

\* C7 (rebuild never touches an open file): whenever the rebuild truncates
\* or writes the backing file of a file, that file's open count is zero.
C7_RebuildNotWhileOpen ==
  [][(\/ rb_pc = "open" /\ rb_pc' = "blocks"
      \/ rb_pc = "blocks" /\ rb_cur'.blk # rb_cur.blk)
       => \/ state_find_file(rb_cur.vpath) = NULL
          \/ files[state_find_file(rb_cur.vpath)].open_count = 0]_vars

\* The file that the next iteration of the rebuild re-resolves is on the
\* drive and has a nonzero open count.
HeadBusy ==
  /\ rb_pc = "next" /\ rb_todo # <<>>
  /\ state_find_file(Head(rb_todo)) # NULL
  /\ files[state_find_file(Head(rb_todo))].drive_idx = rb_cur.drive
  /\ files[state_find_file(Head(rb_todo))].open_count > 0

SkipLines(out, vpath) ==
  Cardinality({i \in DOMAIN out : out[i] = <<"skip", vpath, "busy">>})

S_IFREG == 32768                  \* 0100000
S_IFDIR == 16384                  \* 0040000
DefaultFileMode == S_IFREG + 420  \* S_IFREG | 0644
DefaultDirMode  == S_IFDIR + 493  \* S_IFDIR | 0755

DriveNames == <<"d0", "d1">>      \* s->drives[d].name

Txt(s) == [t |-> "s", s |-> s, d |-> <<>>]

RECURSIVE Digits(_, _)
Digits(n, base) ==
  IF n < base THEN <<n>> ELSE Append(Digits(n \div base, base), n % base)

\* fprintf with %u, %lld, %ld (base 10) or %o (base 8)
Num(n, base) == [t |-> "n", s |-> "", d |-> Digits(n, base)]

\* strtoul / strtoll / sscanf %u: the value of the leading digits that are
\* valid in the base, 0 when the text starts with none.
RECURSIVE StrToULFrom(_, _, _, _)
StrToULFrom(d, k, acc, base) ==
  IF k > Len(d) \/ d[k] >= base THEN acc
  ELSE StrToULFrom(d, k + 1, acc * base + d[k], base)

strtoul(tok, base) == IF tok.t = "s" THEN 0 ELSE StrToULFrom(tok.d, 1, 0, base)

\* The fields a path contributes to a record line: a '|' inside the path is
\* written as it is and so ends a field.
PathFields(path) ==
  IF path = "/c|d" THEN <<Txt("/c"), Txt("d")>> ELSE <<Txt(path)>>

\* write_to_path: the header lines of one drive
AllocLines(d, pa) ==
  <<[kind |-> "drive_next_free", f |-> <<Txt(DriveNames[d + 1]), Num(pa.next_free, 10)>>]>>
    \o [ei \in 1 .. Len(pa.extents) |->
          [kind |-> "drive_free_extent",
           f |-> <<Txt(DriveNames[d + 1]), Num(pa.extents[ei].start, 10),
                   Num(pa.extents[ei].count, 10)>>]]

RECURSIVE AllAllocLines(_, _, _)
AllAllocLines(alloc, d, nd) ==
  IF d >= nd THEN <<>> ELSE AllocLines(d, alloc[d]) \o AllAllocLines(alloc, d + 1, nd)

FileLine(file) ==
  [kind |-> "file",
   f |-> <<Txt(DriveNames[file.drive_idx + 1])>> \o PathFields(file.vpath)
           \o <<Num(file.size, 10), Num(file.parity_pos_start, 10),
                Num(file.block_count, 10), Num(file.mtime_sec, 10),
                Num(file.mtime_nsec, 10), Num(file.mode, 8),
                Num(file.uid, 10), Num(file.gid, 10)>>]

DirLine(dir) ==
  [kind |-> "dir",
   f |-> PathFields(dir.vpath)
           \o <<Num(dir.mode, 8), Num(dir.uid, 10), Num(dir.gid, 10),
                Num(dir.mtime_sec, 10), Num(dir.mtime_nsec, 10)>>]

SymlinkLine(sl) ==
  [kind |-> "symlink",
   f |-> PathFields(sl.vpath) \o PathFields(sl.target)
           \o <<Num(sl.mtime_sec, 10), Num(sl.mtime_nsec, 10),
                Num(sl.uid, 10), Num(sl.gid, 10)>>]

\* metadata_save / write_to_path of a state
\* [alloc, files, dirs, symlinks]: the content file.
metadata_save(st, nd) ==
  AllAllocLines(st.alloc, 0, nd)
    \o [k \in 1 .. Len(st.files) |-> FileLine(st.files[k])]
    \o [k \in 1 .. Len(st.dirs) |-> DirLine(st.dirs[k])]
    \o [k \in 1 .. Len(st.symlinks) |-> SymlinkLine(st.symlinks[k])]

\* The index of the drive with a name, UINT32_MAX when there is none.
DriveIndex(name, nd) ==
  IF \E d \in 0 .. nd - 1 : DriveNames[d + 1] = name
  THEN CHOOSE d \in 0 .. nd - 1 : DriveNames[d + 1] = name
  ELSE UINT32_MAX

\* metadata_load: "# drive_next_free:" raises next_free of the named drive.
LoadNextFree(st, f, nd) ==
  With(DriveIndex(f[1].s, nd),
    LAMBDA di :
      IF di = UINT32_MAX \/ strtoul(f[2], 10) <= st.alloc[di].next_free THEN st
      ELSE [st EXCEPT !.alloc[di].next_free = strtoul(f[2], 10)])

\* metadata_load: "# drive_free_extent:" frees the extent in the allocator.
LoadFreeExtent(st, f, nd) ==
  With(DriveIndex(f[1].s, nd),
    LAMBDA di :
      IF di = UINT32_MAX THEN st
      ELSE [st EXCEPT !.alloc[di] =
              free_positions(@, U32(strtoul(f[2], 10)), U32(strtoul(f[3], 10)))])

\* metadata_load: the record a file line parses to; block_count is replaced
\* by the count computed from the size when they differ.
ParsedFile(f, di) ==
  [drive_idx |-> di,
   vpath |-> f[2].s,
   size |-> strtoul(f[3], 10),
   parity_pos_start |-> U32(strtoul(f[4], 10)),
   block_count |-> blocks_for_size(strtoul(f[3], 10), BlockSize),
   mtime_sec |-> strtoul(f[6], 10),
   mtime_nsec |-> strtoul(f[7], 10),
   mode |-> IF Len(f) >= 10 /\ strtoul(f[8], 8) # 0 THEN strtoul(f[8], 8)
            ELSE DefaultFileMode,
   uid |-> IF Len(f) >= 10 THEN strtoul(f[9], 10) ELSE 0,
   gid |-> IF Len(f) >= 10 THEN strtoul(f[10], 10) ELSE 0]

\* metadata_load: a file line with fewer than 7 separators after "file|" or
\* an unknown drive is skipped; next_free is raised to cover the record.
LoadFile(st, f, nd) ==
  IF Len(f) < 7 \/ DriveIndex(f[1].s, nd) = UINT32_MAX THEN st
  ELSE With(ParsedFile(f, DriveIndex(f[1].s, nd)),
         LAMBDA file :
           [st EXCEPT
              !.alloc[file.drive_idx].next_free =
                 IF U32(file.parity_pos_start + file.block_count) > @
                 THEN U32(file.parity_pos_start + file.block_count) ELSE @,
              !.files = Append(@, file)])

LoadDir(st, f) ==
  IF Len(f) < 6 THEN st
  ELSE [st EXCEPT !.dirs = Append(@,
          [vpath |-> f[1].s,
           mode |-> IF strtoul(f[2], 8) # 0 THEN strtoul(f[2], 8) ELSE DefaultDirMode,
           uid |-> strtoul(f[3], 10),
           gid |-> strtoul(f[4], 10),
           mtime_sec |-> strtoul(f[5], 10),
           mtime_nsec |-> strtoul(f[6], 10)])]

LoadSymlink(st, f) ==
  IF Len(f) < 6 THEN st
  ELSE [st EXCEPT !.symlinks = Append(@,
          [vpath |-> f[1].s,
           target |-> f[2].s,
           mtime_sec |-> strtoul(f[3], 10),
           mtime_nsec |-> strtoul(f[4], 10),
           uid |-> strtoul(f[5], 10),
           gid |-> strtoul(f[6], 10)])]

LoadLine(st, line, nd) ==
  CASE line.kind = "drive_next_free"   -> LoadNextFree(st, line.f, nd)
    [] line.kind = "drive_free_extent" -> LoadFreeExtent(st, line.f, nd)
    [] line.kind = "file"              -> LoadFile(st, line.f, nd)
    [] line.kind = "dir"               -> LoadDir(st, line.f)
    [] line.kind = "symlink"           -> LoadSymlink(st, line.f)

RECURSIVE LoadLines(_, _, _, _)
LoadLines(st, content, k, nd) ==
  IF k > Len(content) THEN st
  ELSE LoadLines(LoadLine(st, content[k], nd), content, k + 1, nd)

\* metadata_load of a content file into a fresh state of nd drives.
metadata_load(content, nd) ==
  LoadLines([alloc |-> [d \in 0 .. nd - 1 |-> alloc_init],
             files |-> <<>>, dirs |-> <<>>, symlinks |-> <<>>],
            content, 1, nd)

(***************************************************************************)
(* SpecIndex: the position index under insert, remove and resize           *)
(***************************************************************************)
IndexSizes == {0, 2, 4}           \* the sizes SpecIndex truncates to
MaxIndexOps == 7                  \* filesystem operations in a run of SpecIndex

InitIndex == InitState(1, 1, FALSE, 1, FALSE, <<MaxIndexOps>>)

\* The record of the file table as metadata_save sees it; the model's FUSE
\* operations leave the times and the owner at fixed values.
FileStat(f) ==
  [drive_idx |-> f.drive_idx, vpath |-> f.vpath, size |-> f.size,
   parity_pos_start |-> f.parity_pos_start, block_count |-> f.block_count,
   mtime_sec |-> 0, mtime_nsec |-> 0, mode |-> DefaultFileMode, uid |-> 0, gid |-> 0]

\* The state metadata_save writes: the allocators and the file list.
SavedState ==
  [alloc |-> pos_alloc,
   files |-> [k \in 1 .. Cardinality(file_list) |-> FileStat(files[SortedSeq(file_list)[k]])],
   dirs |-> <<>>, symlinks |-> <<>>]

\* metadata_save of the present state followed by metadata_load into a
\* fresh state; the loaded state is kept as the result.
MetadataRoundTrip ==
  /\ result' = [op |-> "roundtrip",
                loaded |-> metadata_load(metadata_save(SavedState, drive_count), drive_count)]
  /\ UNCHANGED <<cfgVars, fsVars, dead, parity, fresh, bmVars, jcVars, jVars, rbVars, alVars, extVars>>

\* Files are inserted by lr_create, removed by lr_unlink and resized by
\* lr_truncate; each of them rebuilds the index of the drive.  The sizes
\* keep the drive's position space from running out.  In any state the
\* metadata can be saved and loaded back.
NextIndex ==
  \/ \E h \in FsHandles, path \in VPaths :
        lr_create(h, path, FALSE, state_pick_drive(StatFree, drive_count))
  \/ \E h \in FsHandles : lr_release(h)
  \/ \E path \in VPaths, size \in IndexSizes : lr_truncate(path, size)
  \/ \E path \in VPaths : lr_unlink(path)
  \/ \E rp \in RealPaths : lr_unlink_end(rp)
  \/ MetadataRoundTrip

SpecIndex == InitIndex /\ [][NextIndex]_vars

\* The files of drive d whose range covers pos.
Covering(d, pos) ==
  {id \in file_list : files[id].drive_idx = d /\ pos \in RangeOf(files[id])}

\* C11 (position index law): for every drive d and position pos,
\* state_find_file_at_pos(d, pos) is the file of d whose range
\* [parity_pos_start, parity_pos_start + block_count) contains pos, and NULL
\* when no file covers pos, also when files of the drive have block_count 0.
C11_PositionIndexLaw ==
  \A d \in Drives, pos \in Positions :
     IF Covering(d, pos) = {}
     THEN state_find_file_at_pos(d, pos) = NULL
     ELSE state_find_file_at_pos(d, pos) \in Covering(d, pos)

(***************************************************************************)
(* SpecAlloc: one allocator under alloc_positions and free_positions,      *)
(* the caller freeing only positions it holds                              *)
(***************************************************************************)
PosRange(start, count) == {U32(start + i) : i \in 0 .. count - 1}

\* The positions the allocator can still hand out: its extents and
\* everything from the high-water mark up.
FreeSet(a) ==
  UNION {PosRange(a.extents[i].start, a.extents[i].count) : i \in DOMAIN a.extents}
    \cup {p \in Positions : p >= a.next_free}

\* A call of alloc_positions on the allocator of drive 0.  The caller takes
\* UINT32_MAX for a count above 0 as the failure and holds nothing new.
AllocCall(count) ==
  /\ \E r \in {alloc_positions(pos_alloc[0], count)} :
        /\ pos_alloc' = [pos_alloc EXCEPT ![0] = r.a]
        /\ held' = IF count = 0 \/ r.start = UINT32_MAX
                   THEN held ELSE held \cup PosRange(r.start, count)
        /\ result' = [op |-> "alloc", count |-> count, start |-> r.start,
                      before |-> pos_alloc[0]]
  /\ UNCHANGED <<cfgVars, files, file_list, pos_index, handles, unlinking, rfs, idata,
                 dead, parity, fresh, bmVars, jcVars, jVars, rbVars, mstate, extVars>>

\* A call of free_positions with a range the caller holds; the result keeps
\* the allocation that came just before it.
FreeCall(start, count) ==
  /\ U32(start + count) = start + count
  /\ PosRange(start, count) \subseteq held
  /\ pos_alloc' = [pos_alloc EXCEPT ![0] = free_positions(pos_alloc[0], start, count)]
  /\ held' = held \ PosRange(start, count)
  /\ result' = [op |-> "free", count |-> count, start |-> start,
                before |-> pos_alloc[0],
                prev |-> IF result.op = "alloc"
                         THEN [op |-> "alloc", count |-> result.count,
                               start |-> result.start, before |-> result.before]
                         ELSE [op |-> "other"]]
  /\ UNCHANGED <<cfgVars, files, file_list, pos_index, handles, unlinking, rfs, idata,
                 dead, parity, fresh, bmVars, jcVars, jVars, rbVars, mstate, extVars>>

InitAlloc == InitState(1, 1, FALSE, 1, FALSE, <<>>)

NextAlloc ==
  \/ \E count \in 0 .. UINT32_MAX : AllocCall(count)
  \/ \E start \in Positions, count \in 0 .. UINT32_MAX : FreeCall(start, count)

SpecAlloc == InitAlloc /\ [][NextAlloc]_vars

\* C12 (free list shape): the free-extent list is sorted strictly by start,
\* holds no extent with count 0, and consecutive extents e1, e2 neither
\* overlap nor touch: e1.start + e1.count < e2.start.
C12_ExtentsSortedSeparated ==
  LET ex == pos_alloc[0].extents
  IN  /\ \A i \in DOMAIN ex : ex[i].count > 0
      /\ \A i \in 1 .. Len(ex) - 1 :
            /\ ex[i].start < ex[i + 1].start
            /\ ex[i].start + ex[i].count < ex[i + 1].start

\* Two extents are on the list after a free that merged with no neighbour.
C12_TwoExtents ==
  /\ result.op = "free"
  /\ Len(pos_alloc[0].extents) = 2
  /\ Len(result.before.extents) = 1

\* C13 (below the watermark): every free extent ends strictly below
\* next_free; an extent that would end at next_free is taken off the list
\* and next_free lowered to its start.
C13_ExtentsBelowWatermark ==
  LET a == pos_alloc[0]
  IN  \A i \in DOMAIN a.extents : a.extents[i].start + a.extents[i].count < a.next_free

\* A free of the range ending at the watermark lowered the watermark while
\* an extent stays on the list.
C13_WatermarkLowered ==
  /\ result.op = "free" /\ result.count > 0
  /\ result.start + result.count = result.before.next_free
  /\ pos_alloc[0].next_free <= result.start
  /\ Len(pos_alloc[0].extents) > 0

FirstFit(a, count) ==
  LET fits == {i \in DOMAIN a.extents : a.extents[i].count >= count}
  IN  IF fits = {} THEN 0 ELSE CHOOSE i \in fits : \A j \in fits : i <= j

\* C15 (first fit): alloc_positions(count), count > 0, returns the start of
\* the lowest-start extent whose count is >= count, shrinks it from the
\* front or removes it on an exact fit, and leaves next_free alone; only
\* when no extent fits does it return the old next_free and raise next_free
\* by count, leaving the extents unchanged.
C15_FirstFit ==
  [][LET a  == pos_alloc[0]
         a2 == pos_alloc'[0]
         r  == result'
         i  == FirstFit(a, r.count)
     IN  (r.op = "alloc" /\ r.count > 0) =>
           /\ i # 0 =>
                /\ r.start = a.extents[i].start
                /\ \A j \in DOMAIN a.extents : a.extents[j].count >= r.count
                                                 => a.extents[i].start <= a.extents[j].start
                /\ a2.next_free = a.next_free
                /\ a2.extents =
                     IF a.extents[i].count = r.count
                     THEN RemoveAt(a.extents, i)
                     ELSE [a.extents EXCEPT ![i] = [start |-> a.extents[i].start + r.count,
                                                    count |-> a.extents[i].count - r.count]]
           /\ (i = 0 /\ r.start # UINT32_MAX) =>
                /\ r.start = a.next_free
                /\ a2.next_free = a.next_free + r.count
                /\ a2.extents = a.extents
           /\ a2.next_free # a.next_free => i = 0]_vars

\* An allocation passed over a smaller extent and took a later one.
C15_SkippedSmall ==
  /\ result.op = "alloc" /\ result.count > 0
  /\ Len(result.before.extents) = 2
  /\ result.before.extents[1].count < result.count
  /\ result.start = result.before.extents[2].start

\* alloc_positions found no extent to fit and the bump would pass the last
\* position of the namespace.
Exhausted(a, count) ==
  /\ FirstFit(a, count) = 0
  /\ a.next_free + count > UINT32_MAX

\* C16 (namespace exhausted), as stated: alloc_positions(count) returns
\* UINT32_MAX exactly when no free extent fits and next_free + count would
\* exceed the namespace, and then leaves next_free and the extents
\* unchanged; a successful allocation never returns a range that wraps.
C16_ExhaustedExactly ==
  [][LET a  == pos_alloc[0]
         a2 == pos_alloc'[0]
         r  == result'
     IN  r.op = "alloc" =>
           /\ (r.start = UINT32_MAX) <=> Exhausted(a, r.count)
           /\ r.start = UINT32_MAX => a2 = a
           /\ r.start # UINT32_MAX => r.start + r.count <= UINT32_MAX]_vars

\* C16 (namespace exhausted), for counts above 0: alloc_positions(count)
\* with count > 0 returns UINT32_MAX exactly when no free extent fits and
\* next_free + count would exceed the namespace, and then leaves next_free
\* and the extents unchanged; a successful allocation never returns a range
\* that wraps; the probe with count 0 returns next_free and changes nothing,
\* which is UINT32_MAX once next_free has reached it.
C16_ExhaustedExactlyAboveZero ==
  [][LET a  == pos_alloc[0]
         a2 == pos_alloc'[0]
         r  == result'
     IN  /\ (r.op = "alloc" /\ r.count > 0) =>
              /\ (r.start = UINT32_MAX) <=> Exhausted(a, r.count)
              /\ r.start = UINT32_MAX => a2 = a
              /\ r.start # UINT32_MAX => r.start + r.count <= UINT32_MAX
         /\ (r.op = "alloc" /\ r.count = 0) =>
              /\ r.start = a.next_free
              /\ a2 = a]_vars

\* An allocation failed although positions were free below the watermark.
C16_FailedWithFreeExtent ==
  /\ result.op = "alloc" /\ result.count > 0
  /\ result.start = UINT32_MAX
  /\ Len(pos_alloc[0].extents) > 0
  /\ pos_alloc[0] = result.before

\* The allocation before a free served its range by raising next_free.
ServedByBump(prev, after) ==
  /\ prev.op = "alloc" /\ prev.count > 0
  /\ prev.start = prev.before.next_free
  /\ after.next_free = prev.before.next_free + prev.count

\* A free that gives back exactly what the call before it allocated.
FreesLastAlloc ==
  /\ result.op = "free"
  /\ result.prev.op = "alloc"
  /\ result.prev.start = result.start
  /\ result.prev.count = result.count

C18_AllocatorSurvivesRoundTrip ==
  result.op = "roundtrip" => \A d \in Drives : result.loaded.alloc[d] = pos_alloc[d]

(***************************************************************************)
(* SpecCodec: metadata_save and metadata_load on file, directory and       *)
(* symlink records                                                         *)
(***************************************************************************)
MaxRecords == 1                   \* records of each kind in a saved state
CodecPaths == {"/a", "/c|d"}      \* a plain name and one holding a '|'
CodecIds   == {0, 1000}           \* uid and gid values
CodecNsecs == {0, 999}            \* mtime nanoseconds
CodecModes == {DefaultFileMode, S_IFREG + 493}

\* File records as lr_create and lr_write2 leave them: block_count follows
\* the size, an empty file sits at position 0.
CodecFiles ==
  {[drive_idx |-> 0, vpath |-> p, size |-> sz,
    parity_pos_start |-> IF sz = 0 THEN 0 ELSE ps,
    block_count |-> blocks_for_size(sz, BlockSize),
    mtime_sec |-> 17, mtime_nsec |-> ns, mode |-> m, uid |-> u, gid |-> 1000] :
     p \in CodecPaths, sz \in {0, 3}, ps \in {0, 2}, ns \in CodecNsecs,
     m \in CodecModes, u \in CodecIds}

CodecDirs ==
  {[vpath |-> p, mode |-> DefaultDirMode, uid |-> u, gid |-> g,
    mtime_sec |-> 17, mtime_nsec |-> ns] :
     p \in CodecPaths, u \in CodecIds, g \in CodecIds, ns \in CodecNsecs}

CodecSymlinks ==
  {[vpath |-> p, target |-> t, mtime_sec |-> 17, mtime_nsec |-> ns,
    uid |-> u, gid |-> 1000] :
     p \in CodecPaths, t \in {"/b", "/c|d"}, ns \in CodecNsecs, u \in CodecIds}

SeqsUpTo(S, n) == UNION {[1 .. k -> S] : k \in 0 .. n}

\* The allocator of a drive that holds just these files.
CodecAlloc(fs) ==
  IF fs = <<>> \/ fs[1].block_count = 0 THEN alloc_init
  ELSE [next_free |-> fs[1].parity_pos_start + fs[1].block_count,
        extents |-> IF fs[1].parity_pos_start = 0 THEN <<>>
                    ELSE <<[start |-> 0, count |-> fs[1].parity_pos_start]>>]

CodecStates ==
  {[alloc |-> [d \in {0} |-> CodecAlloc(fs)], files |-> fs, dirs |-> ds, symlinks |-> ss] :
     fs \in SeqsUpTo(CodecFiles, MaxRecords), ds \in SeqsUpTo(CodecDirs, MaxRecords),
     ss \in SeqsUpTo(CodecSymlinks, MaxRecords)}

InitCodec ==
  /\ InitBase(1, 1, FALSE, 1, FALSE, <<>>)
  /\ mstate \in CodecStates

\* metadata_save of the state followed by metadata_load into a fresh one.
CodecRoundTrip ==
  /\ result.op = "none"
  /\ result' = [op |-> "codec",
                loaded |-> metadata_load(metadata_save(mstate, drive_count), drive_count)]
  /\ UNCHANGED <<cfgVars, fsVars, dead, parity, fresh, bmVars, jcVars, jVars, rbVars, alVars, extVars>>

NextCodec == CodecRoundTrip

SpecCodec == InitCodec /\ [][NextCodec]_vars

\* C19 (codec round trip): metadata_save followed by metadata_load into a
\* fresh state reproduces every file, directory and symlink record field
\* for field, none lost, added or altered.
C19_RecordsSurviveRoundTrip ==
  result.op = "codec" =>
     /\ result.loaded.files = mstate.files
     /\ result.loaded.dirs = mstate.dirs
     /\ result.loaded.symlinks = mstate.symlinks

(***************************************************************************)
(* SpecBitmap: the dirty bitmap saved, lost in a crash and loaded on       *)
(* restart.  The bitmap file is taken at the code's own widths: positions  *)
(* are 32-bit and a word holds 64 of them.                                 *)
(***************************************************************************)
MaxLoadWords == 1048576           \* 0x100000, the largest word count loaded
BigPosition  == 33554432          \* a position in word 0x80000
BitmapSample == {0, 64, BigPosition - 1, BigPosition}

\* bitmap_ensure
bitmap_ensure(words, pos) ==
  IF pos \div 64 >= words THEN (pos \div 64 + 1) * 2 ELSE words

\* bitmap_set, as journal_mark_dirty_range calls it for a position
BitmapSet(pos) ==
  /\ running = 1
  /\ pos \notin bitmap
  /\ bitmap' = bitmap \cup {pos}
  /\ bitmap_words' = bitmap_ensure(bitmap_words, pos)
  /\ UNCHANGED <<cfgVars, fsVars, parVars, jcVars, jVars, rbVars, alVars, extVars>>

\* The worker's periodic journal_bitmap_save.
BitmapSave ==
  /\ running = 1
  /\ bitmap_file' = journal_bitmap_save
  /\ UNCHANGED <<running, processing, wpc, batch, fl_pc, fl_owed, fl_had, destroy_pc, unlinked>>
  /\ UNCHANGED <<cfgVars, fsVars, parVars, bmVars, jcVars, rbVars, alVars, extVars>>

\* The process dies: the bitmap in memory is gone, the file stays.
Crash ==
  /\ running = 1
  /\ running' = 0
  /\ bitmap' = {}
  /\ bitmap_words' = 0
  /\ UNCHANGED <<processing, wpc, batch, bitmap_file, fl_pc, fl_owed, fl_had, destroy_pc, unlinked>>
  /\ UNCHANGED <<cfgVars, fsVars, parVars, jcVars, rbVars, alVars, extVars>>

\* journal_bitmap_load: the bitmap [bits, words] after the file is merged
\* into bm; a missing file, a wrong magic, a word count of 0 or above
\* MaxLoadWords, or a short body leave bm as it is.
journal_bitmap_load(bm, file) ==
  IF ~bitmap_path \/ ~file.exists THEN bm
  ELSE IF file.magic # "LRBM" \/ file.words = 0 \/ file.words > MaxLoadWords THEN bm
  ELSE IF file.body # file.words THEN bm
  ELSE [bits  |-> bm.bits \cup {p \in file.bits : p \div 64 < Max(bm.words, file.words)},
        words |-> Max(bm.words, file.words)]

\* Restart: journal_init leaves an empty bitmap and
\* journal_set_bitmap_path loads the file into it.
Restart ==
  /\ running = 0
  /\ running' = 1
  /\ \E bm \in {journal_bitmap_load([bits |-> {}, words |-> 0], bitmap_file)} :
        bitmap' = bm.bits /\ bitmap_words' = bm.words
  /\ UNCHANGED <<processing, wpc, batch, bitmap_file, fl_pc, fl_owed, fl_had, destroy_pc, unlinked>>
  /\ UNCHANGED <<cfgVars, fsVars, parVars, jcVars, rbVars, alVars, extVars>>

InitBitmap == InitState(1, 1, TRUE, 1, TRUE, <<>>)

NextBitmap ==
  \/ \E pos \in BitmapSample : BitmapSet(pos)
  \/ BitmapSave
  \/ Crash
  \/ Restart

SpecBitmap == InitBitmap /\ [][NextBitmap]_vars

\* C20 (bitmap persistence): a restart that finds the file
\* journal_bitmap_save wrote leaves the bitmap in memory equal to its
\* previous contents joined with the saved set, so every position that was
\* dirty in the saved snapshot is dirty after the load.
C20_SavedBitsLoaded ==
  [][(running = 0 /\ running' = 1 /\ bitmap_file.exists)
       => bitmap' = bitmap \cup bitmap_file.bits]_vars

(***************************************************************************)
(* Handles and renames (SpecFs)                                            *)
(***************************************************************************)
\* The records whose backing file the descriptor of handle h refers to: the
\* record the handle was opened on, wherever renames have moved it.
HandleRecord(h) ==
  {id \in file_list : handles[h].fd # DeadFd /\ rfs[RealOf(files[id])] = handles[h].fd}

\* C21 (release): a release lowers by one the open count of the record the
\* handle was opened on, also when that record was renamed since the open,
\* and changes the open count of no other record.
C21_ReleaseDecrementsOwn ==
  [][\A h \in HandleIds :
       (handles[h].st = "open" /\ handles'[h].st = "free")
         => \A id \in file_list :
              files'[id].open_count =
                IF id \in HandleRecord(h) THEN files[id].open_count - 1
                ELSE files[id].open_count]_vars

(***************************************************************************)
(* SpecNames: files, symlinks and directories under create, symlink, mkdir *)
(* and rename with its flags                                               *)
(***************************************************************************)
EEXIST  == 17
ENOENT  == 2
ENOTDIR == 20
EISDIR  == 21
EINVAL  == 22

\* is_virtual_dir: vpath is the root, or a record's vpath continues vpath with
\* '/' or ends there.  Every path of the model lies in the root directory, so
\* the only vpath that has vpath as such a prefix is vpath itself.
is_virtual_dir(vpath) ==
  vpath = "/" \/ \E id \in file_list : files[id].vpath = vpath

is_any_dir(vpath) ==
  is_virtual_dir(vpath) \/ \E d \in Drives : <<d, vpath>> \in rdirs

\* What a namespace operation leaves alone.
NamesFrame ==
  /\ budget # <<0>>
  /\ budget' = IF budget = <<>> THEN <<>> ELSE <<budget[1] - 1>>
  /\ UNCHANGED <<drive_count, levels, journal_on, dead, parity, fresh,
                 jcVars, alVars, jVars, rbVars, ctrl_line, stVars, histVars>>

lr_do_symlink(link_path) ==
  /\ IF state_find_file(link_path) # NULL \/ link_path \in dirs \/ link_path \in symlinks
     THEN /\ UNCHANGED symlinks
          /\ result' = [op |-> "symlink", rc |-> -EEXIST]
     ELSE /\ symlinks' = symlinks \cup {link_path}
          /\ result' = [op |-> "symlink", rc |-> 0]
  /\ UNCHANGED <<fsVars, bmVars, dirs, rdirs>>
  /\ NamesFrame

\* lr_mkdir on the drive d that state_pick_drive chose; mkdir(real) fails
\* when the path exists on the drive.
lr_mkdir(path, d) ==
  /\ d \notin dead
  /\ IF rfs[<<d, path>>] # NULL \/ <<d, path>> \in rdirs
     THEN /\ UNCHANGED <<dirs, rdirs>>
          /\ result' = [op |-> "mkdir", rc |-> -EEXIST]
     ELSE /\ rdirs' = rdirs \cup {<<d, path>>}
          /\ dirs' = dirs \cup {path}
          /\ result' = [op |-> "mkdir", rc |-> 0]
  /\ UNCHANGED <<fsVars, bmVars, symlinks>>
  /\ NamesFrame

\* lr_rename of a symlink record.  With from = to and no flag, the record is
\* removed as the destination, removed from the table again and freed while
\* the table still links it: the table ends with or without the record.
RenameSymlink(from, to, noreplace) ==
  /\ IF noreplace /\ (state_find_file(to) # NULL \/ to \in symlinks)
     THEN /\ UNCHANGED symlinks
          /\ result' = [op |-> "rename", rc |-> -EEXIST]
     ELSE /\ symlinks' \in (IF from = to THEN {symlinks, symlinks \ {from}}
                            ELSE {(symlinks \ {from}) \cup {to}})
          /\ result' = [op |-> "rename", rc |-> 0]
  /\ UNCHANGED <<fsVars, bmVars, dirs, rdirs>>

\* lr_rename of a directory: the backing directory of each drive is renamed
\* in turn until one rename fails (the new path is a file of the drive);
\* then the directory records are re-keyed.
RenameDir(from, to, noreplace) ==
  LET has    == {d \in Drives : <<d, from>> \in rdirs}
      bad    == {d \in has : rfs[<<d, to>>] # NULL}
      done   == {d \in has : \A b \in bad : d < b}
  IN  /\ IF noreplace /\ is_any_dir(to)
         THEN /\ UNCHANGED <<dirs, rdirs>>
              /\ result' = [op |-> "rename", rc |-> -EEXIST]
         ELSE /\ rdirs' = (rdirs \ {<<d, from>> : d \in done}) \cup {<<d, to>> : d \in done}
              /\ IF bad # {}
                 THEN /\ UNCHANGED dirs
                      /\ result' = [op |-> "rename", rc |-> -ENOTDIR]
                 ELSE /\ dirs' = IF from \in dirs THEN (dirs \ {from}) \cup {to} ELSE dirs
                      /\ result' = [op |-> "rename", rc |-> 0]
      /\ UNCHANGED <<fsVars, bmVars, symlinks>>

\* lr_rename of a file record with its flag checks and its return value.
RenameFileCall(from, to, noreplace) ==
  /\ IF from = to
     THEN /\ UNCHANGED <<fsVars, bmVars>>
          /\ result' = [op |-> "rename", rc |-> 0]
     ELSE IF noreplace /\ state_find_file(to) # NULL
     THEN /\ UNCHANGED <<fsVars, bmVars>>
          /\ result' = [op |-> "rename", rc |-> -EEXIST]
     ELSE /\ RenameFile(from, to)
          /\ result' = [op |-> "rename",
                        rc |-> IF RenameSucceeds(from, to) THEN 0
                               ELSE IF <<files[state_find_file(from)].drive_idx, to>> \in rdirs
                               THEN -EISDIR ELSE -ENOENT]
  /\ UNCHANGED <<symlinks, dirs, rdirs>>

\* lr_rename(from, to, flags): the flags are the set of RENAME_NOREPLACE and
\* RENAME_EXCHANGE given.
RenameCall(from, to, flags) ==
  /\ IF "EXCHANGE" \in flags
     THEN /\ UNCHANGED <<fsVars, bmVars, nsVars>>
          /\ result' = [op |-> "rename", rc |-> -EINVAL]
     ELSE IF state_find_file(from) # NULL
     THEN RenameFileCall(from, to, "NOREPLACE" \in flags)
     ELSE IF is_any_dir(from)
     THEN RenameDir(from, to, "NOREPLACE" \in flags)
     ELSE IF from \in symlinks
     THEN RenameSymlink(from, to, "NOREPLACE" \in flags)
     ELSE /\ UNCHANGED <<fsVars, bmVars, nsVars>>
          /\ result' = [op |-> "rename", rc |-> -ENOENT]
  /\ NamesFrame

MaxNameOps == 4                   \* namespace operations in a run of SpecNames
NamePaths  == {"/a", "/b"}

\* An entry of any kind exists at the path.
EntryAt(path) ==
  state_find_file(path) # NULL \/ path \in symlinks \/ path \in dirs \/ is_any_dir(path)

InitNames == InitState(1, 1, FALSE, 1, FALSE, <<MaxNameOps>>)

NextNames ==
  \/ \E h \in FsHandles, path \in NamePaths :
        lr_create(h, path, FALSE, state_pick_drive(StatFree, drive_count))
  \/ \E h \in FsHandles : lr_release(h)
  \/ \E path \in NamePaths : lr_do_symlink(path)
  \/ \E path \in NamePaths : lr_mkdir(path, state_pick_drive(StatFree, drive_count))
  \/ \E from \in NamePaths, to \in NamePaths, flags \in SUBSET {"NOREPLACE", "EXCHANGE"} :
        RenameCall(from, to, flags)

SpecNames == InitNames /\ [][NextNames]_vars

\* C22 (no replace): a rename with RENAME_NOREPLACE of an entry to another path that
\* holds an entry of any kind (file, symlink or directory) returns -EEXIST
\* and changes neither the tables nor the drives, whatever the source is.
C22_NoReplaceFailsExists ==
  [][\A from \in NamePaths, to \in NamePaths :
        (from # to /\ EntryAt(from) /\ EntryAt(to) /\ RenameCall(from, to, {"NOREPLACE"}))
          => /\ result'.rc = -EEXIST
             /\ UNCHANGED <<fsVars, nsVars>>]_vars

(***************************************************************************)
(* The control connection (ctrl.c): one command line, the reply stream     *)
(***************************************************************************)
CtrlBufSize == 4096               \* ctrl_send: char buf[4096]

DigitText == <<"0", "1", "2", "3", "4", "5", "6", "7", "8", "9">>

\* printf %u
RECURSIVE Dec(_)
Dec(n) == IF n < 10 THEN DigitText[n + 1] ELSE Dec(n \div 10) \o DigitText[(n % 10) + 1]

\* The text vsnprintf formats for a line of the reply; strerror(errno) of a
\* failed open or pwrite is that of EIO.
Format(line) ==
  IF line[1] = "progress"
  THEN (IF Len(line) = 3
        THEN "progress 0 " \o Dec(line[3]) \o " (starting)\n"
        ELSE "progress " \o Dec(line[2]) \o " " \o Dec(line[3]) \o " " \o line[4] \o "\n")
  ELSE IF line[1] = "skip" THEN "skip " \o line[2] \o " busy\n"
  ELSE IF line[1] = "ok" THEN "ok " \o line[2] \o "\n"
  ELSE IF line[1] = "fail"
  THEN (IF line[3] = "cannot create"
        THEN "fail " \o line[2] \o " cannot create: Input/output error\n"
        ELSE IF line[3] = "parity error"
        THEN "fail " \o line[2] \o " parity error at block " \o Dec(line[4]) \o "\n"
        ELSE "fail " \o line[2] \o " write error at block " \o Dec(line[4])
               \o ": Input/output error\n")
  ELSE IF line[1] = "done"
  THEN (IF Len(line) = 4
        THEN "done " \o Dec(line[2]) \o " " \o Dec(line[3]) \o " skipped=" \o Dec(line[4]) \o "\n"
        ELSE IF Len(line) = 5
        THEN "done " \o Dec(line[2]) \o " " \o Dec(line[3]) \o " errors=" \o Dec(line[5]) \o "\n"
        ELSE "done " \o Dec(line[2]) \o " " \o Dec(line[3]) \o " fixed=" \o Dec(line[5])
               \o " errors=" \o Dec(line[7]) \o "\n")
  ELSE IF Len(line) = 2 THEN "error " \o line[2] \o "\n"
  ELSE "error drive '" \o line[2] \o "' not found\n"

\* ctrl_send: the bytes written to the connection, at most sizeof(buf) - 1
\* of the formatted text.
ctrl_send(line) ==
  With(Format(line),
    LAMBDA text : IF Len(text) >= CtrlBufSize THEN SubSeq(text, 1, CtrlBufSize - 1) ELSE text)

\* The reply stream: what ctrl_send wrote for each line, in order.
Reply(out) == [k \in 1 .. Len(out) |-> ctrl_send(out[k])]

EndsLine(text)       == SubSeq(text, Len(text), Len(text)) = "\n"
StartsWith(text, pf) == Len(text) >= Len(pf) /\ SubSeq(text, 1, Len(pf)) = pf

\* The read loop of handle_connection on the bytes the client sent: the
\* text before the first newline, at most 511 bytes of it, trailing carriage
\* returns stripped.
RECURSIVE LineEnd(_, _)
LineEnd(input, len) ==
  IF len >= 511 \/ len >= Len(input) \/ SubSeq(input, len + 1, len + 1) = "\n" THEN len
  ELSE LineEnd(input, len + 1)

RECURSIVE StripCR(_)
StripCR(line) ==
  IF Len(line) > 0 /\ SubSeq(line, Len(line), Len(line)) = "\r"
  THEN StripCR(SubSeq(line, 1, Len(line) - 1)) ELSE line

ReadCommand(input) == StripCR(SubSeq(input, 1, LineEnd(input, 0)))

\* parity_scrub at one position: a read error, a mismatch of the stored
\* parity with the parity encoded from the data blocks, or neither.
ScrubReadError(d, pos) ==
  LET fid == state_find_file_at_pos(d, pos)
      f   == files[fid]
      ino == rfs[RealOf(f)]
  IN  /\ fid # NULL
      /\ \/ f.drive_idx \in dead
         \/ ino = NULL
         \/ Len(idata[ino]) <= U32(pos + Wrap - f.parity_pos_start) * BlockSize

ScrubStatus(pos) ==
  IF \E d \in Drives : ScrubReadError(d, pos) THEN "read_error"
  ELSE IF \E l \in 0 .. levels - 1 : parity_read_block(l, pos).rc # 0 THEN "read_error"
  ELSE IF \E l \in 0 .. levels - 1 : EncodedParity(pos)[l] # parity[l][pos] THEN "mismatch"
  ELSE "match"

\* max_pos of parity_scrub: the largest next_free of the drives.
ScrubMaxPos ==
  CHOOSE m \in {pos_alloc[d].next_free : d \in Drives} :
     \A d \in Drives : pos_alloc[d].next_free <= m

\* parity_scrub: the counters of lr_scrub_result.
parity_scrub ==
  LET checked == 0 .. ScrubMaxPos - 1
  IN  [positions_checked |-> Cardinality(checked),
       parity_mismatches |-> Cardinality({p \in checked : ScrubStatus(p) = "mismatch"}),
       read_errors       |-> Cardinality({p \in checked : ScrubStatus(p) = "read_error"})]

\* parity_write_block of the level fails.
ParityWriteError(l) == l \in parity_dead \cup parity_ro

\* The parity files after parity_scrub(repair): at a mismatched position
\* each level is rewritten with the parity computed from the data, unless
\* its parity_write_block fails.
ScrubbedParityNone(repair) == parity
ScrubbedParity(repair) ==
  [l \in 0 .. levels - 1 |->
     [p \in Positions |->
        IF repair /\ p < ScrubMaxPos /\ ScrubStatus(p) = "mismatch" /\ ~ParityWriteError(l)
        THEN EncodedParity(p)[l] ELSE parity[l][p]]]

\* parity_fixed of lr_scrub_result: the mismatched positions whose levels
\* were all written.
ScrubFixed(repair) ==
  IF repair /\ ~\E l \in 0 .. levels - 1 : ParityWriteError(l)
  THEN Cardinality({p \in 0 .. ScrubMaxPos - 1 : ScrubStatus(p) = "mismatch"})
  ELSE 0

\* live_do_scrub; with repair the mismatched parity blocks are rewritten.
live_do_scrub(repair) ==
  /\ IF levels = 0
     THEN /\ rb_out' = <<<<"error", "no parity configured">>>>
          /\ UNCHANGED <<parity, fresh>>
     ELSE \E r \in {parity_scrub} :
          \E bad \in {{p \in 0 .. ScrubMaxPos - 1 : ScrubStatus(p) = "mismatch"}} :
            IF repair
            THEN /\ rb_out' = <<<<"done", r.positions_checked, r.parity_mismatches,
                                  "fixed", ScrubFixed(TRUE), "errors", r.read_errors>>>>
                 /\ parity' = ScrubbedParity(TRUE)
                 /\ fresh' = IF dead = {} THEN fresh \cup bad ELSE fresh \ bad
            ELSE /\ rb_out' = <<<<"done", r.positions_checked, r.parity_mismatches,
                                  "errors", r.read_errors>>>>
                 /\ UNCHANGED <<parity, fresh>>
  /\ rb_pc' = "done"
  /\ UNCHANGED <<rb_todo, rb_cur, rb_count, rfs, idata>>

\* live_do_rebuild from the drive name of the command.
live_do_rebuild_name(drive_name) ==
  IF DriveIndex(drive_name, drive_count) = UINT32_MAX
  THEN /\ rb_out' = <<<<"error", drive_name, "not found">>>>
       /\ rb_pc' = "done"
       /\ UNCHANGED <<rb_todo, rb_cur, rb_count, rfs, idata, parity, fresh>>
  ELSE /\ RebuildSnapshot(DriveIndex(drive_name, drive_count))
       /\ UNCHANGED <<parity, fresh>>

\* handle_connection: one command line is read and dispatched.
handle_connection(input) ==
  /\ rb_pc = "idle"
  /\ \E line \in {ReadCommand(input)} :
        /\ ctrl_line' = line
        /\ IF StartsWith(line, "rebuild ")
           THEN live_do_rebuild_name(SubSeq(line, 9, Len(line)))
           ELSE IF line = "scrub repair" THEN live_do_scrub(TRUE)
           ELSE IF line = "scrub" THEN live_do_scrub(FALSE)
           ELSE /\ rb_out' = <<<<"error", "unknown command">>>>
                /\ rb_pc' = "done"
                /\ UNCHANGED <<rb_todo, rb_cur, rb_count, rfs, idata, parity, fresh>>
  /\ result' = NoResult
  /\ UNCHANGED <<cfgVars, files, file_list, pos_index, pos_alloc, handles, unlinking,
                 dead, bmVars, jcVars, alVars, nsVars, stVars, histVars, jVars>>

MaxCtrlOps == 3                   \* filesystem operations in a run of SpecCtrl
CtrlPaths  == {"/a", LongPath}
CtrlInputs == {"rebuild d0\n", "rebuild d9\n", "scrub\r\n", "scrub repair\n",
               "status\n", "scrub\nrebuild d0\n"}

InitCtrl == \E np \in {0, 1} : InitState(1, np, FALSE, 1, FALSE, <<MaxCtrlOps>>)

NextCtrl ==
  \/ \E h \in FsHandles, path \in CtrlPaths :
        lr_create(h, path, FALSE, state_pick_drive(StatFree, drive_count))
  \/ \E h \in FsHandles : lr_release(h)
  \/ \E h \in FsHandles : lr_write2(h, Zeros(1), 0)
  \/ \E input \in CtrlInputs : handle_connection(input)
  \/ live_rebuild_resolve
  \/ live_rebuild_open
  \/ live_rebuild_block
  \/ live_rebuild_finish
  \/ live_do_rebuild_done

SpecCtrl == InitCtrl /\ [][NextCtrl]_vars

\* The chunks of a reply that begin a line that starts with done or error.
Terminators(w) ==
  {k \in 1 .. Len(w) :
     /\ k = 1 \/ EndsLine(w[k - 1])
     /\ StartsWith(w[k], "done ") \/ StartsWith(w[k], "error ")}

\* The command asks for a rebuild of a configured drive or for a scrub with
\* parity configured.
ExpectsDone ==
  \/ /\ StartsWith(ctrl_line, "rebuild ")
     /\ DriveIndex(SubSeq(ctrl_line, 9, Len(ctrl_line)), drive_count) # UINT32_MAX
  \/ ctrl_line \in {"scrub", "scrub repair"} /\ levels > 0

\* C23 (reply stream): when the connection has been served, the reply holds
\* exactly one line that starts with done or error, it is the last line
\* and is complete; it is a done line for a rebuild of a known drive and for
\* a scrub, an error line otherwise; the done line of a rebuild adds up to
\* the number of files snapshotted.
C23_ReplyEndsWithTerminator ==
  rb_pc = "done" =>
    LET w == Reply(rb_out)
        n == Len(w)
    IN  /\ Terminators(w) = {n}
        /\ EndsLine(w[n])
        /\ StartsWith(w[n], IF ExpectsDone THEN "done " ELSE "error ")
        /\ StartsWith(ctrl_line, "rebuild ") /\ ExpectsDone
             => rb_out[n][2] + rb_out[n][3] + rb_out[n][4] = rb_cur.total

(***************************************************************************)
(* SpecBlocks and SpecPlace: the block-count helper and the choice of a     *)
(* drive for a new file (state.h, state.c)                                 *)
(***************************************************************************)
SizeBits   == 2 * PosBits         \* width of uint64_t sizes in the model
Sizes      == 0 .. 2 ^ SizeBits - 1
BlockSizes == {1, 2, 3}           \* values of the uint32_t block_size argument
MaxDrives  == 3                   \* largest drive_count of SpecPlace
FreeValues == 0 .. 2              \* free bytes statvfs reports for a drive
MaxCalls   == Wrap + 1            \* calls of state_pick_drive in a run

\* The smallest n with n * b >= s.
CeilDiv(s, b) == (s + b - 1) \div b

\* state_pick_drive(s) with s->rr_next = rr and statvfs reporting free[d]:
\* the value returned and the counter it leaves.  Every policy other than
\* round robin reaches the loop that picks the most free space.
PickDrive(policy, rr, free, n) ==
  IF n = 0 THEN [ret |-> UINT32_MAX, rr_next |-> rr]
  ELSE IF policy = LR_PLACE_ROUNDROBIN THEN [ret |-> rr % n, rr_next |-> U32(rr + 1)]
  ELSE [ret |-> state_pick_drive(free, n), rr_next |-> rr]

StateFrame ==
  UNCHANGED <<cfgVars, fsVars, dead, parity, fresh, bmVars, jcVars, jVars, rbVars,
              alVars, nsVars, ctrl_line, placement_policy, histVars>>

\* A call of blocks_for_size(size, block_size).
BlocksForSizeCall ==
  \E size \in Sizes, bs \in BlockSizes :
    /\ result' = [op |-> "blocks_for_size", size |-> size, block_size |-> bs,
                  ret |-> blocks_for_size(size, bs)]
    /\ UNCHANGED <<rr_next, calls>>
    /\ StateFrame

\* A call of state_pick_drive(s); k is the number of calls made before it.
PickDriveCall ==
  \E free \in [0 .. drive_count - 1 -> FreeValues] :
    /\ calls < MaxCalls
    /\ \E r \in {PickDrive(placement_policy, rr_next, free, drive_count)} :
         /\ result' = [op |-> "state_pick_drive", free |-> free, k |-> calls,
                       ret |-> r.ret]
         /\ rr_next' = r.rr_next
    /\ calls' = calls + 1
    /\ StateFrame

InitBlocks == InitState(1, 1, FALSE, 1, FALSE, <<>>)

NextBlocks == BlocksForSizeCall

SpecBlocks == InitBlocks /\ [][NextBlocks]_vars

InitPlace ==
  \E nd \in 0 .. MaxDrives,
     policy \in {LR_PLACE_MOSTFREE, LR_PLACE_ROUNDROBIN, LR_PLACE_LFS, LR_PLACE_PFRD} :
    /\ InitCore(nd, 1, FALSE, 1, FALSE, <<>>)
    /\ NoLossHistory
    /\ mstate = NoMeta
    /\ placement_policy = policy

NextPlace == PickDriveCall

SpecPlace == InitPlace /\ [][NextPlace]_vars

\* C24 (block count law): blocks_for_size(0, B) = 0, and for every size
\* s > 0 of 64 bits and every block size B > 0, blocks_for_size(s, B) is
\* the ceiling of s / B.
C24_BlocksForSizeIsCeiling ==
  result.op = "blocks_for_size" =>
    result.ret = IF result.size = 0 THEN 0 ELSE CeilDiv(result.size, result.block_size)

\* C25 (round robin): under ROUNDROBIN with drive_count > 0 the k-th call
\* of state_pick_drive returns drive k mod drive_count, for any number of
\* calls; with drive_count = 0 every call returns the no-drive value and
\* leaves the counter as it was.
C25_RoundRobinKthCall ==
  (result.op = "state_pick_drive" /\ placement_policy = LR_PLACE_ROUNDROBIN) =>
    IF drive_count > 0 THEN result.ret = result.k % drive_count
    ELSE result.ret = UINT32_MAX /\ rr_next = 0

\* C26 (least free space): under the LFS policy state_pick_drive returns a
\* drive whose free space is minimal among all drives, for every assignment
\* of free space to the drives.
C26_LfsPicksLeastFree ==
  (result.op = "state_pick_drive" /\ placement_policy = LR_PLACE_LFS /\ drive_count > 0) =>
    \A d \in 0 .. drive_count - 1 : result.free[result.ret] <= result.free[d]

(***************************************************************************)
(* SpecDirty: files with contents under create, write, truncate, unlink    *)
(* and rename with the journal attached, the worker draining, and one      *)
(* journal_flush after the last operation                                  *)
(***************************************************************************)
MaxDirtyOps  == 5                 \* filesystem operations in a run of SpecDirty
DirtyPaths   == {"/a", "/b"}
DirtyHandles == {1, 2}            \* handle h creates the path PathSeq[h]
DirtyOffsets == {0, 2}            \* the offsets written at
DirtySizes   == {1, 3}            \* the sizes SpecDirty truncates to
DirtyData    == {<<7, 7>>}        \* the bytes written: one block, no zero byte

\* Operations are issued until flusher 1 calls journal_flush.
Issuing == fl_pc[1] = "idle"

InitDirty == InitState(1, 1, TRUE, 1, FALSE, <<MaxDirtyOps>>)

NextDirty ==
  \/ \E h \in DirtyHandles :
        Issuing /\ lr_create(h, PathSeq[h], FALSE, state_pick_drive(StatFree, drive_count))
  \/ \E h \in DirtyHandles, offset \in DirtyOffsets, data \in DirtyData :
        Issuing /\ lr_write2(h, data, offset)
  \/ \E path \in DirtyPaths, size \in DirtySizes : Issuing /\ lr_truncate(path, size)
  \/ \E path \in DirtyPaths : Issuing /\ lr_unlink(path)
  \/ \E rp \in RealPaths : lr_unlink_end(rp)
  \/ \E from \in DirtyPaths, to \in DirtyPaths : Issuing /\ lr_rename(from, to, FALSE)
  \/ worker_wake
  \/ worker_save(FALSE)
  \/ worker_swap
  \/ worker_drain(1)
  \/ worker_finish
  \/ Issuing /\ unlinking = {} /\ journal_flush_call(1)
  \/ journal_flush_return(1)

SpecDirty == InitDirty /\ [][NextDirty]_vars

\* The parity of position pos computed from the blocks the drives hold.
TrueParity(pos) ==
  ec_encode_data(drive_count, levels, ParityRows,
                 [k \in 1 .. drive_count |-> TrueBlock(k - 1, pos)])

\* The positions that will be encoded after this step: those dirty in the
\* bitmap and those of the batch the worker has still to drain.
PendingAfter == bitmap' \cup UNION {Range(batch'[t]) : t \in DOMAIN batch'}

\* C28 (truncate marks dirty): a successful truncate that changes the size
\* of a file leaves dirty (marked, or still to be encoded by the drain in
\* progress) every position whose zero-padded block changed, the new last
\* block of a shrunk file included.
C28_TruncateMarksChanged ==
  [][\A path \in DirtyPaths, size \in DirtySizes :
        (lr_truncate(path, size) /\ files[state_find_file(path)].size # size)
          => ChangedPositions \subseteq PendingAfter]_vars

\* The record id grows in this step and was not tail-contiguous, so that its
\* range is freed and allocated anew.
Relocated(id) ==
  /\ id \in file_list
  /\ files[id].block_count > 0
  /\ files'[id].block_count > files[id].block_count
  /\ U32(files[id].parity_pos_start + files[id].block_count)
       # pos_alloc[files[id].drive_idx].next_free

\* C29 (relocation marks both ranges): when a write or truncate relocates a
\* growing file, every position of the new range and every position of the
\* old range that the file no longer occupies is dirty afterwards (marked,
\* or still to be encoded by the drain in progress).
C29_RelocationMarksBothRanges ==
  [][\A id \in FileIds :
        Relocated(id)
          => (RangeOf(files'[id]) \cup (RangeOf(files[id]) \ RangeOf(files'[id])))
               \subseteq PendingAfter]_vars

\* C27 (quiescent parity): when the journal_flush called after the last
\* operation has returned, the stored parity of every position below the
\* largest next_free equals the parity of the current data blocks, and a
\* scrub counts no mismatch.
C27_QuiescentParityConsistent ==
  fl_pc[1] = "returned" =>
    /\ \A pos \in 0 .. ScrubMaxPos - 1, l \in 0 .. levels - 1 :
          parity[l][pos] = TrueParity(pos)[l]
    /\ parity_scrub.parity_mismatches = 0

(***************************************************************************)
(* SpecDrain: the split of the collected positions over the threads of a   *)
(* parallel drain (journal.c, worker_thread)                               *)
(***************************************************************************)
MaxThreads   == 5                 \* largest nthreads of SpecDrain
DrainBitmaps == SUBSET (0 .. UINT32_MAX - 1) \ {{}}   \* the swapped-out bitmaps

\* a - b in uint32_t.
Sub32(a, b) == U32(a - b + Wrap)

\* works[0 .. nt - 1] of the parallel path, as <<start, count>> pairs indexed
\* from 1: start is the offset of works[t].positions in the positions array.
\* The sums pos_count + nt - 1 and start + chunk stay below 2^32 in the code
\* and are not reduced here.
ParityWorks(pos_count, nthr) ==
  LET nt0   == IF nthr > 0 THEN nthr ELSE 1
      nt    == IF nt0 > pos_count /\ pos_count > 0 THEN pos_count ELSE nt0
      chunk == (pos_count + nt - 1) \div nt
  IN  [k \in 1 .. nt |->
         IF k = 1 THEN [start |-> 0, count |-> Min(chunk, pos_count)]
         ELSE With((k - 1) * chunk,
                LAMBDA start :
                  [start |-> start,
                   count |-> Sub32(IF start + chunk < pos_count THEN start + chunk
                                   ELSE pos_count, start)])]

\* The worker reaches the parallel path with the bitmap bits swapped out.
ParallelDrainPlan ==
  \E bits \in DrainBitmaps :
    /\ nthreads > 1
    /\ result' = [op |-> "drain", positions |-> SortedSeq(bits),
                  pos_count |-> Cardinality(bits),
                  works |-> ParityWorks(Cardinality(bits), nthreads)]
    /\ UNCHANGED <<cfgVars, fsVars, dead, parity, fresh, bmVars, jcVars, jVars, rbVars,
                   alVars, extVars>>

InitDrain == \E nt \in 2 .. MaxThreads : InitState(1, 1, TRUE, nt, FALSE, <<>>)

NextDrain == ParallelDrainPlan

SpecDrain == InitDrain /\ [][NextDrain]_vars

\* The indices of the positions array that the thread of works[t] passes
\* to parity_update_position.
WorkIndices(w) == {w.start + i : i \in 0 .. w.count - 1}

\* C30 (parallel drain partition): for every number of dirty positions and
\* every thread count from 2 up, the chunks of the threads partition the
\* collected position list: every index of the list belongs to exactly
\* one thread and no thread has an index outside the list.
C30_ChunksPartitionPositions ==
  result.op = "drain" =>
    /\ \A t \in DOMAIN result.works :
          WorkIndices(result.works[t]) \subseteq 0 .. result.pos_count - 1
    /\ \A i \in 0 .. result.pos_count - 1 :
          Cardinality({t \in DOMAIN result.works : i \in WorkIndices(result.works[t])}) = 1

(***************************************************************************)
(* SpecRecover: recovery when a parity file cannot be read                 *)
(***************************************************************************)
MaxRecoverOps    == 3             \* filesystem operations in a run of SpecRecover
RecoverPaths     == {"/a", "/b"}
RecoverPositions == {0}

\* The file of a parity level becomes unreadable: pread and pwrite on its
\* descriptor fail from now on.
ParityFails(l) ==
  /\ l \in 0 .. levels - 1
  /\ l \notin parity_dead
  /\ parity_dead' = parity_dead \cup {l}
  /\ result' = NoResult
  /\ UNCHANGED <<cfgVars, fsVars, bmVars, dead, parity, fresh, jcVars, alVars, nsVars,
                 ctrl_line, stVars, at_loss, parity_ro, reqVars, lkVars, jVars, rbVars>>

\* nfailed of parity_recover_block(drive_idx, pos): the drive asked for and
\* the surviving drives whose block cannot be read.
RecoverNeeds(drive_idx, pos) ==
  1 + Cardinality({d \in Drives \ {drive_idx} : DataRead(d, pos).found /\ ~DataRead(d, pos).ok})

\* parity_recover_block(d, pos) as a step that records the value returned
\* and whether one of the parity blocks the call reads cannot be read.
RecoverCall(d, pos) ==
  \E r \in {parity_recover_block(d, pos)} :
      /\ result' = [op |-> "recover_call", rc |-> r.rc,
                    unread |-> \E p \in 0 .. RecoverNeeds(d, pos) - 1 : p \in parity_dead,
                    ok |-> r.rc = 0 /\ r.buf = TrueBlock(d, pos)]
      /\ UNCHANGED <<cfgVars, fsVars, bmVars, dead, parity, fresh, jcVars, alVars, extVars,
                     jVars, rbVars>>

InitRecover ==
  \E np \in 1 .. 2 :
      /\ InitCore(2, np, FALSE, 1, FALSE, <<MaxRecoverOps>>)
      /\ LossHistory(2)
      /\ placement_policy = LR_PLACE_MOSTFREE
      /\ mstate = NoMeta

NextRecover ==
  \/ \E h \in ParityHandles, path \in RecoverPaths :
        lr_create(h, path, FALSE, state_pick_drive(StatFree, drive_count))
  \/ \E h \in ParityHandles : lr_release(h)
  \/ \E h \in ParityHandles, offset \in 0 .. MaxFileBytes - 1 :
        /\ handles[h].st = "open"
        /\ \E data \in WriteData(handles[h].vpath, offset) : lr_write2(h, data, offset)
  \/ \E d \in Drives : DriveFails(d)
  \/ \E l \in 0 .. 1 : ParityFails(l)
  \/ \E pos \in RecoverPositions : UpdatePosition(pos)
  \/ \E d \in Drives, pos \in RecoverPositions : RecoverCall(d, pos)
  \/ \E d \in Drives, pos \in RecoverPositions : RecoverBlock(d, pos)

SpecRecover == InitRecover /\ [][NextRecover]_vars

(***************************************************************************)
(* Drains and recovery with a lost drive (SpecRecover)                     *)
(***************************************************************************)
\* C31 (a drain keeps recoverability): when the parity at a position was
\* consistent with the blocks of all drives at the time drive d was lost and
\* the position has been drained since, parity_recover_block(d, pos)
\* returns the block of drive d.
C31_DrainKeepsRecoverable ==
  (result.op = "recover" /\ result.redrained) => result.ok

\* C32 (unreadable parity fails recovery): parity_recover_block returns
\* failure whenever one of the parity blocks it needs cannot be read; it
\* never returns success with a block reconstructed from a parity block
\* replaced by zeroes.
C32_UnreadableParityFails ==
  (result.op = "recover_call" /\ result.unread) => result.rc # 0

(***************************************************************************)
(* SpecRequests: scrub and repair requests against the worker's test of    *)
(* the flags (journal.c, main.c)                                           *)
(***************************************************************************)
ReqFrame ==
  /\ result' = NoResult
  /\ UNCHANGED <<cfgVars, fsVars, dead, bmVars, jcVars, alVars, nsVars, ctrl_line, stVars,
                 at_loss, parity_dead, parity_ro, lkVars, rbVars, running, processing, batch, bitmap_file,
                 fl_pc, fl_owed, fl_had, destroy_pc, unlinked>>

\* SIGUSR1 arrives while the worker runs.
sigusr1_handler ==
  /\ running = 1
  /\ scrub_pending' = 1
  /\ UNCHANGED <<repair_pending, do_repair, repair_owed, wpc, parity, fresh>>
  /\ ReqFrame

\* SIGUSR2 arrives while the worker runs.
sigusr2_handler ==
  /\ running = 1
  /\ repair_pending' = 1
  /\ repair_owed' = TRUE
  /\ UNCHANGED <<scrub_pending, do_repair, wpc, parity, fresh>>
  /\ ReqFrame

\* journal_scrub_request and journal_repair_request store the flag and then
\* signal wake_cond under the bitmap lock; the signal changes no variable,
\* the worker's wait returning at any time.
journal_scrub_request == sigusr1_handler
journal_repair_request == sigusr2_handler

\* if (j->repair_pending || j->scrub_pending)
worker_check ==
  /\ wpc = "check"
  /\ wpc' = IF repair_pending # 0 \/ scrub_pending # 0 THEN "load" ELSE "wait"
  /\ UNCHANGED <<reqVars, parity, fresh>>
  /\ ReqFrame

\* int do_repair = j->repair_pending;
worker_load ==
  /\ wpc = "load"
  /\ do_repair' = repair_pending
  /\ wpc' = "clear_scrub"
  /\ UNCHANGED <<scrub_pending, repair_pending, repair_owed, parity, fresh>>
  /\ ReqFrame

\* j->scrub_pending = 0;
worker_clear_scrub ==
  /\ wpc = "clear_scrub"
  /\ scrub_pending' = 0
  /\ wpc' = "clear_repair"
  /\ UNCHANGED <<repair_pending, do_repair, repair_owed, parity, fresh>>
  /\ ReqFrame

\* j->repair_pending = 0;
worker_clear_repair ==
  /\ wpc = "clear_repair"
  /\ repair_pending' = 0
  /\ wpc' = "scrub"
  /\ UNCHANGED <<scrub_pending, do_repair, repair_owed, parity, fresh>>
  /\ ReqFrame

\* parity_scrub(s, &result, do_repair) run by the worker.
worker_scrub ==
  /\ wpc = "scrub"
  /\ parity' = ScrubbedParity(do_repair # 0)
  /\ fresh' = fresh
  /\ repair_owed' = IF do_repair # 0 THEN FALSE ELSE repair_owed
  /\ wpc' = "wait"
  /\ UNCHANGED <<scrub_pending, repair_pending, do_repair>>
  /\ ReqFrame

InitRequests == InitState(1, 1, TRUE, 1, FALSE, <<>>)

NextRequests ==
  \/ \E start \in 0 .. MarkPositions - 1, count \in 1 .. MarkPositions :
        start + count <= MarkPositions /\ MarkDirty(start, count)
  \/ worker_wake
  \/ worker_save(FALSE)
  \/ worker_swap
  \/ worker_drain(1)
  \/ WorkerFinish("check")
  \/ worker_check
  \/ worker_load
  \/ worker_clear_scrub
  \/ worker_clear_repair
  \/ worker_scrub
  \/ sigusr1_handler
  \/ sigusr2_handler

SpecRequests == InitRequests /\ [][NextRequests]_vars

\* C33 (requests are served): a repair request raised while the worker runs
\* is never cleared without a repair pass being run for it: while a repair
\* is owed, the flag is still set or the worker is on its way into a pass
\* with repair.
C33_RepairNeverLost ==
  repair_owed =>
    \/ repair_pending # 0
    \/ wpc \in {"clear_scrub", "clear_repair", "scrub"} /\ do_repair # 0

(***************************************************************************)
(* SpecLocks: the order in which the threads take state_lock and           *)
(* bitmap_lock (fuse_ops.c, journal.c, parity.c, ctrl.c)                   *)
(***************************************************************************)
\* journal_mark_dirty_range: the mutex around the bitmap_set loop.
MarkLocks == <<"lock", "unlock">>

\* journal_flush: lock, signal, cond_wait loop on drain_cond, unlock.
FlushLocks == <<"lock", "wait", "relock", "unlock">>

\* The lock operations of each function, in program order.  "wait" is
\* pthread_cond_(timed)wait releasing the mutex, "relock" its return with the
\* mutex held again (after which a wait loop may wait once more).
CallerLockScript(fn) ==
  CASE fn = "lr_write2" -> <<"wrlock">> \o MarkLocks \o <<"unlock_state">>
    [] fn = "lr_unlink" -> <<"wrlock">> \o MarkLocks \o <<"unlock_state">>
    [] fn = "lr_read" -> <<"rdlock", "unlock_state">>
    [] fn = "lr_fsync" -> <<"rdlock", "unlock_state">> \o MarkLocks \o FlushLocks
    [] fn = "lr_destroy" -> FlushLocks \o <<"lock", "unlock">>
    [] fn = "parity_worker_thread" -> <<"rdlock", "unlock_state">>
    [] fn = "handle_connection" -> <<"rdlock", "unlock_state">>
    [] fn = "journal_scrub_request" -> <<"lock", "unlock">>
    [] OTHER -> <<>>

\* A worker that drains a position before it releases the mutex of the swap.
LockScriptDrainInsideSwap(fn) ==
  IF fn = "worker_thread"
  THEN <<"lock", "wait", "relock", "unlock", "lock", "rdlock", "unlock_state", "unlock">>
  ELSE CallerLockScript(fn)

LockScript(fn) ==
  IF fn = "worker_thread"
  THEN <<"lock", "wait", "relock", "unlock">>        \* timedwait on wake_cond
       \o <<"rdlock", "unlock_state">>              \* metadata_save
       \o <<"lock", "unlock">>                      \* journal_bitmap_save
       \o <<"lock", "unlock">>                      \* swap the bitmap out
       \o <<"rdlock", "unlock_state">>              \* parity_update_position
       \o <<"lock", "unlock">>                      \* processing = 0
       \o <<"rdlock", "unlock_state">>              \* parity_scrub: max next_free
       \o <<"rdlock", "unlock_state">>              \* parity_scrub: one position
  ELSE CallerLockScript(fn)

\* The functions a thread may be running.
LockFunctions(t) ==
  CASE t \in {"fuse1", "fuse2"} ->
         {"lr_write2", "lr_unlink", "lr_read", "lr_fsync", "lr_destroy"}
    [] t = "worker" -> {"worker_thread"}
    [] t = "parity_worker" -> {"parity_worker_thread"}
    [] t = "ctrl" -> {"handle_connection", "journal_scrub_request"}

LockOp(t) == LockScript(lock_pc[t].fn)[lock_pc[t].at]

LockBusy(t) == lock_pc[t].fn # "idle"

\* Whether the thread's next lock operation can be carried out now.
LockCanStep(t) ==
  /\ LockBusy(t)
  /\ CASE LockOp(t) = "rdlock" -> \A u \in LockThreads : state_lock[u] # "wr"
       [] LockOp(t) = "wrlock" -> \A u \in LockThreads : state_lock[u] = "none"
       [] LockOp(t) \in {"lock", "relock"} -> bitmap_lock = "none"
       [] OTHER -> TRUE

LockFrame ==
  /\ result' = NoResult
  /\ UNCHANGED <<cfgVars, fsVars, dead, parity, fresh, bmVars, jcVars, jVars, rbVars, alVars,
                 nsVars, ctrl_line, stVars, at_loss, restVars>>

\* A thread enters one of its functions.
LockBegin(t, fn) ==
  /\ ~LockBusy(t)
  /\ fn \in LockFunctions(t)
  /\ lock_pc' = [lock_pc EXCEPT ![t] = [fn |-> fn, at |-> 1]]
  /\ UNCHANGED <<state_lock, bitmap_lock>>
  /\ LockFrame

\* pc after the operation at index i; from "relock" the wait loop may go
\* round again when again is TRUE.
LockAdvance(t, again) ==
  IF LockOp(t) = "relock" /\ again THEN [lock_pc[t] EXCEPT !.at = @ - 1]
  ELSE IF lock_pc[t].at = Len(LockScript(lock_pc[t].fn)) THEN [fn |-> "idle", at |-> 1]
  ELSE [lock_pc[t] EXCEPT !.at = @ + 1]

\* A thread carries out its next lock operation.
LockStep(t, again) ==
  /\ LockCanStep(t)
  /\ state_lock' =
       CASE LockOp(t) = "rdlock" -> [state_lock EXCEPT ![t] = "rd"]
         [] LockOp(t) = "wrlock" -> [state_lock EXCEPT ![t] = "wr"]
         [] LockOp(t) = "unlock_state" -> [state_lock EXCEPT ![t] = "none"]
         [] OTHER -> state_lock
  /\ bitmap_lock' =
       CASE LockOp(t) \in {"lock", "relock"} -> t
         [] LockOp(t) \in {"unlock", "wait"} -> "none"
         [] OTHER -> bitmap_lock
  /\ lock_pc' = [lock_pc EXCEPT ![t] = LockAdvance(t, again)]
  /\ LockFrame

InitLocks == InitState(1, 1, TRUE, 1, FALSE, <<>>)

NextLocks ==
  \/ \E t \in LockThreads : \E fn \in LockFunctions(t) : LockBegin(t, fn)
  \/ \E t \in LockThreads, again \in BOOLEAN : LockStep(t, again)

SpecLocks == InitLocks /\ [][NextLocks]_vars

\* A thread takes state_lock in this step while it owns bitmap_lock.
TakesStateUnderBitmap ==
  \E t \in LockThreads :
     state_lock[t] = "none" /\ state_lock'[t] # "none" /\ bitmap_lock = t

\* While some thread is inside a function, some thread can go on.
SomeLockStep ==
  (\E t \in LockThreads : LockBusy(t)) => (\E u \in LockThreads : LockCanStep(u))

\* C34 (lock ordering): no thread acquires state_lock while it holds
\* bitmap_lock, and whenever some thread is inside a function, some thread's
\* next lock operation can be carried out (no deadlock on the two locks).
C34_LockOrder ==
  /\ [][~TakesStateUnderBitmap]_vars
  /\ []SomeLockStep

\* A FUSE thread holds state_lock for writing and bitmap_lock inside it while
\* the worker is about to take state_lock and a flush waits for bitmap_lock.
C34_Witness ==
  /\ state_lock["fuse1"] = "wr"
  /\ bitmap_lock = "fuse1"
  /\ lock_pc["worker"].fn = "worker_thread" /\ LockOp("worker") = "rdlock"
  /\ lock_pc["fuse2"].fn = "lr_fsync" /\ LockOp("fuse2") = "relock"

(***************************************************************************)
(* SpecFlush: journal_flush waiting on drain_cond against the worker's     *)
(* timed wait (journal.c)                                                  *)
(***************************************************************************)
\* journal_flush finds processing set or the bitmap not empty and blocks in
\* pthread_cond_wait(&j->drain_cond) until the next broadcast.
journal_flush_wait(f) ==
  /\ fl_pc[f] = "waiting"
  /\ processing # 0 \/ ~bitmap_is_empty
  /\ fl_pc' = [fl_pc EXCEPT ![f] = "blocked"]
  /\ UNCHANGED <<running, processing, wpc, batch, bitmap_file, fl_owed, fl_had,
                 destroy_pc, unlinked>>
  /\ UNCHANGED <<bmVars, parity, fresh>>
  /\ JournalFrame

InitFlush == \E nt \in 1 .. 2 : InitState(1, 1, TRUE, nt, FALSE, <<>>)

NextFlush ==
  \/ \E start \in 0 .. MarkPositions - 1, count \in 1 .. MarkPositions :
        start + count <= MarkPositions /\ MarkDirty(start, count)
  \/ worker_wake
  \/ worker_save(FALSE)
  \/ worker_swap
  \/ \E t \in 1 .. 2 : worker_drain(t)
  \/ worker_finish
  \/ \E f \in Flushers : journal_flush_call(f)
  \/ \E f \in Flushers : journal_flush_wait(f)
  \/ \E f \in Flushers : journal_flush_return(f)

SpecFlush == InitFlush /\ [][NextFlush]_vars

\* Fair scheduling: the worker's timed wait returns at the latest on its
\* timeout, a thread that can take its next step takes it.
SpecFlushFair ==
  /\ SpecFlush
  /\ WF_vars(worker_wake)
  /\ WF_vars(worker_save(FALSE))
  /\ WF_vars(worker_swap)
  /\ \A t \in 1 .. 2 : WF_vars(worker_drain(t))
  /\ WF_vars(worker_finish)
  /\ \A f \in Flushers : WF_vars(journal_flush_wait(f) \/ journal_flush_return(f))

\* A step that marks a position dirty.
MarkStep == ~(bitmap' \subseteq bitmap) /\ wpc' = wpc

\* C35 (flush terminates): when from some point on no position is marked
\* dirty, every journal_flush that was called returns.
C35_FlushTerminates ==
  <>[][~MarkStep]_vars =>
     \A f \in Flushers : (fl_pc[f] \in {"waiting", "blocked"}) ~> (fl_pc[f] = "returned")

\* One flush has returned after a drain; another, called while the worker
\* was draining (its signal found no waiter), is blocked on drain_cond with
\* positions marked since the swap.
C35_Witness ==
  /\ fl_pc[1] = "returned" /\ fl_had[1]
  /\ fl_pc[2] = "blocked"
  /\ wpc = "drain"
  /\ bitmap # {}

(***************************************************************************)
(* SpecTree: files inside directories under create, write, unlink and      *)
(* rename of files and of directories over two drives (fuse_ops.c)         *)
(***************************************************************************)
MaxTreeOps == 5          \* operations in a run of SpecTree

\* The vpath continues dir with '/': strncmp(vpath, dir, len) == 0 and
\* vpath[len] == '/'.
Under(dir, vpath) == \E name \in {"x"} : vpath = dir \o "/" \o name

\* to followed by what follows from in vpath.
Rekeyed(from, to, vpath) ==
  IF vpath = from THEN to
  ELSE CHOOSE np \in TreeFiles : \E name \in {"x"} : vpath = from \o "/" \o name /\ np = to \o "/" \o name

ParentOf(vpath) == CHOOSE dir \in TreeDirs : Under(dir, vpath)

TreeKeep ==
  /\ \A d \in Drives : Len(pos_alloc'[d].extents) <= MaxExtents
  /\ fresh' = IF fresh = {} THEN {} ELSE fresh \ ChangedPositions
  /\ budget # <<0>>
  /\ budget' = IF budget = <<>> THEN <<>> ELSE <<budget[1] - 1>>
  /\ result' = NoResult
  /\ UNCHANGED <<drive_count, levels, journal_on, dead, parity, jcVars, alVars, symlinks,
                 ctrl_line, stVars, histVars, jVars, rbVars>>

\* lr_create of a path inside a directory: mkdirs_p makes the parent
\* directory on the drive of the file before the file is opened.
CreateInDir(h, path, d) ==
  /\ handles[h].st = "free"
  /\ IF state_find_file(path) # NULL
     THEN /\ CreateExisting(h, state_find_file(path), FALSE)
          /\ UNCHANGED rdirs
     ELSE /\ CreateNew(h, path, d)
          /\ rdirs' = rdirs \cup {<<d, ParentOf(path)>>}
  /\ UNCHANGED dirs
  /\ TreeKeep

\* lr_rename of a file to a path inside a directory: mkdirs_p makes the
\* parent of the new path on the file's drive before rename(2) is tried.
RenameFileInDir(from, to) ==
  /\ state_find_file(from) # NULL
  /\ from # to
  /\ RenameFile(from, to)
  /\ rdirs' = IF files[state_find_file(from)].drive_idx \in dead THEN rdirs
              ELSE rdirs \cup {<<files[state_find_file(from)].drive_idx, ParentOf(to)>>}
  /\ UNCHANGED dirs
  /\ TreeKeep

\* rename(real_from, real_to) of a backing directory fails on a drive where
\* real_to holds an entry (ENOTEMPTY).
RealDirRenameFails(d, to) ==
  \/ d \in dead
  \/ <<d, to>> \in rdirs /\ \E rp \in RealPaths : rp[1] = d /\ Under(to, rp[2]) /\ rfs[rp] # NULL

\* lr_rename of a directory: the backing directory is renamed on each drive
\* that has it, in turn, until one rename fails; when none failed, every file
\* record under from is re-keyed under to, then every directory record.
RenameTree(from, to) ==
  LET has   == {d \in Drives : <<d, from>> \in rdirs}
      bad   == {d \in has : RealDirRenameFails(d, to)}
      done  == {d \in has : \A b \in bad : d < b}
      moved == {rp \in RealPaths : rp[1] \in done /\ Under(from, rp[2])}
      src   == [rp \in RealPaths |->
                  CHOOSE q \in RealPaths \cup {<<>>} :
                     IF \E m \in moved : <<m[1], Rekeyed(from, to, m[2])>> = rp
                     THEN q \in moved /\ <<q[1], Rekeyed(from, to, q[2])>> = rp
                     ELSE q = <<>>]
  IN  /\ state_find_file(from) = NULL
      /\ \E id \in file_list : Under(from, files[id].vpath)
      /\ from # to
      /\ rdirs' = (rdirs \ {<<d, from>> : d \in done}) \cup {<<d, to>> : d \in done}
      /\ rfs' = [rp \in RealPaths |->
                   IF src[rp] # <<>> THEN rfs[src[rp]]
                   ELSE IF rp \in moved THEN NULL ELSE rfs[rp]]
      /\ IF bad # {}
         THEN UNCHANGED <<files, dirs>>
         ELSE /\ files' = [id \in FileIds |->
                             IF id \in file_list /\ Under(from, files[id].vpath)
                             THEN [files[id] EXCEPT !.vpath = Rekeyed(from, to, @)]
                             ELSE files[id]]
              /\ dirs' = IF from \in dirs THEN (dirs \ {from}) \cup {to} ELSE dirs
      /\ UNCHANGED <<file_list, pos_index, pos_alloc, handles, unlinking, idata, bmVars>>
      /\ TreeKeep

InitTree == InitState(2, 1, FALSE, 1, FALSE, <<MaxTreeOps>>)

NextTree ==
  \/ \E h \in {1, 2}, path \in TreeFiles :
        CreateInDir(h, path, state_pick_drive(StatFree, drive_count))
  \/ \E h \in {1, 2} : lr_write2(h, <<7>>, 0)
  \/ \E h \in {1, 2} : lr_release(h)
  \/ \E path \in TreeFiles : lr_unlink(path)
  \/ \E rp \in RealPaths : lr_unlink_end(rp)
  \/ \E from \in TreeFiles, to \in TreeFiles : RenameFileInDir(from, to)
  \/ \E from \in TreeDirs, to \in TreeDirs : RenameTree(from, to)

SpecTree == InitTree /\ [][NextTree]_vars

\* C36 (one record per path): the file table holds at most one file record
\* per virtual path.
C36_OneRecordPerPath ==
  \A a \in file_list, b \in file_list : files[a].vpath = files[b].vpath => a = b

\* Every position of a file's range lies below next_free of the file's
\* drive and inside no free extent.
RangesBelowNextFree ==
  \A id \in file_list :
     \A i \in 0 .. files[id].block_count - 1 :
        /\ files[id].parity_pos_start + i < pos_alloc[files[id].drive_idx].next_free
        /\ \A k \in DOMAIN pos_alloc[files[id].drive_idx].extents :
              files[id].parity_pos_start + i \notin
                 PosRange(pos_alloc[files[id].drive_idx].extents[k].start,
                          pos_alloc[files[id].drive_idx].extents[k].count)

\* A step in which a file that ends at next_free grows in place leaves
\* next_free at the new end of the file, as an integer.
TailGrowthExact ==
  \A id \in file_list :
     (/\ id \in file_list'
      /\ files[id].block_count > 0
      /\ files'[id].block_count > files[id].block_count
      /\ files'[id].parity_pos_start = files[id].parity_pos_start
      /\ files[id].parity_pos_start + files[id].block_count
           = pos_alloc[files[id].drive_idx].next_free)
     => pos_alloc'[files[id].drive_idx].next_free
          = files[id].parity_pos_start + files'[id].block_count

\* C37 (position namespace): on every drive next_free never wraps around
\* 2^32: every position of a file's range lies below next_free and inside no
\* free extent, and the growth of a file at the tail raises next_free to the
\* file's new end without overflow.
C37_NextFreeNeverWraps ==
  /\ []RangesBelowNextFree
  /\ [][TailGrowthExact]_vars

\* C38 (unlink against create): once every lr_unlink has returned (no
\* unlink(real) is outstanding), each record of the file table has its
\* backing file on its drive; an unlink that ran concurrently with a create
\* of the same path did not delete the file of the new record.
C38_RecordHasBackingFile ==
  unlinking = {} =>
     \A id \in file_list : rfs[RealOf(files[id])] # NULL

(***************************************************************************)
(* SpecRename: lr_rename of files whose backing rename fails (fuse_ops.c)  *)
(***************************************************************************)
MaxRenameOps == 5        \* filesystem operations in a run of SpecRename
RenamePaths == {"/a", "/b"}

InitRename == InitState(1, 1, FALSE, 1, FALSE, <<MaxRenameOps>>)

NextRename ==
  \/ \E h \in {1, 2} :
        lr_create(h, PathSeq[h], FALSE, state_pick_drive(StatFree, drive_count))
  \/ \E h \in {1, 2} : lr_write2(h, <<7>>, 0)
  \/ \E h \in {1, 2} : lr_release(h)
  \/ \E d \in Drives : DriveFails(d)
  \/ \E from \in RenamePaths, to \in RenamePaths, flags \in SUBSET {"NOREPLACE"} :
        RenameCall(from, to, flags)

SpecRename == InitRename /\ [][NextRename]_vars

\* C39 (rename rollback): a lr_rename that returns an error leaves the file
\* table as it was: the same records under the same vpaths with the same
\* vpath, real path, positions and open counts, the record at the
\* destination still there and no position freed.
C39_FailedRenameRollsBack ==
  [][(result'.op = "rename" /\ result'.rc # 0)
       => /\ files' = files
          /\ file_list' = file_list
          /\ pos_alloc' = pos_alloc
          /\ pos_index' = pos_index
          /\ \A p \in RenamePaths : state_find_file(p)' = state_find_file(p)]_vars

\* A rename onto an existing file with blocks has failed in rename(2): both
\* records are in the table.
C39_Witness ==
  /\ result.op = "rename" /\ result.rc = -ENOENT
  /\ state_find_file("/a") # NULL
  /\ state_find_file("/b") # NULL
  /\ \E id \in file_list : files[id].vpath = "/b" /\ files[id].block_count > 0

(***************************************************************************)
(* SpecScrub: parity_scrub with and without repair over data and parity    *)
(* files that may fail (parity.c, ctrl.c)                                  *)
(***************************************************************************)
MaxScrubOps == 2         \* filesystem operations in a run of SpecScrub
ScrubPositions == {0, 1}

\* pwrite on the parity file of a level starts to fail.
ParityWriteFails(l) ==
  /\ l \in 0 .. levels - 1
  /\ l \notin parity_ro
  /\ parity_ro' = parity_ro \cup {l}
  /\ result' = NoResult
  /\ UNCHANGED <<cfgVars, fsVars, bmVars, dead, parity, fresh, jcVars, alVars, nsVars,
                 ctrl_line, stVars, at_loss, parity_dead, reqVars, lkVars, jVars, rbVars>>

\* The positions below max_pos at which a data block cannot be read.
ScrubDataErrors ==
  {p \in 0 .. ScrubMaxPos - 1 : \E d \in Drives : ScrubReadError(d, p)}

\* parity_scrub(s, &result, repair) called with no other thread running; the
\* result keeps the counters, whether a parity_write_block failed, and the
\* positions with a data read error whose parity was written.
ScrubCall(repair) ==
  /\ levels > 0
  /\ parity' = ScrubbedParity(repair)
  /\ result' = [op |-> "scrub", repair |-> repair,
                positions_checked |-> parity_scrub.positions_checked,
                parity_mismatches |-> parity_scrub.parity_mismatches,
                read_errors |-> parity_scrub.read_errors,
                parity_fixed |-> ScrubFixed(repair),
                write_errors |-> repair /\ parity_scrub.parity_mismatches > 0
                                   /\ \E l \in 0 .. levels - 1 : ParityWriteError(l),
                data_errors |-> Cardinality(ScrubDataErrors),
                written_at_error |-> {p \in ScrubDataErrors :
                                        \E l \in 0 .. levels - 1 : parity'[l][p] # parity[l][p]}]
  /\ UNCHANGED <<cfgVars, fsVars, bmVars, dead, fresh, jcVars, alVars, extVars, jVars, rbVars>>

InitScrub == \E np \in 1 .. 2 : InitState(2, np, FALSE, 1, FALSE, <<MaxScrubOps>>)

NextScrub ==
  \/ \E h \in {1} :
        lr_create(h, PathSeq[h], FALSE, state_pick_drive(StatFree, drive_count))
  \/ \E h \in {1}, data \in {<<7>>, <<7, 7, 7>>} : lr_write2(h, data, 0)
  \/ \E d \in Drives : DriveFails(d)
  \/ \E l \in 0 .. 1 : ParityFails(l)
  \/ \E l \in 0 .. 1 : ParityWriteFails(l)
  \/ \E pos \in ScrubPositions : UpdatePosition(pos)
  \/ \E repair \in BOOLEAN : ScrubCall(repair)

SpecScrub == InitScrub /\ [][NextScrub]_vars

\* C40 (scrub with repair converges): after a parity_scrub with repair that
\* had no read and no write error, parity_fixed equals parity_mismatches and
\* a scrub of the resulting state counts as many positions as the largest
\* next_free of the drives and no mismatch; and after any scrub, every
\* position with a data read error is counted in read_errors and no parity
\* block of it was written.
C40_RepairConverges ==
  result.op = "scrub" =>
    /\ (result.repair /\ result.read_errors = 0 /\ ~result.write_errors) =>
          /\ result.parity_fixed = result.parity_mismatches
          /\ \A d \in Drives : pos_alloc[d].next_free <= parity_scrub.positions_checked
          /\ \E d \in Drives : pos_alloc[d].next_free = parity_scrub.positions_checked
          /\ parity_scrub.parity_mismatches = 0
    /\ result.data_errors <= result.read_errors
    /\ result.written_at_error = {}

\* A scrub with repair found and fixed a mismatch, without errors.
C40_Witness ==
  /\ result.op = "scrub" /\ result.repair
  /\ result.read_errors = 0 /\ ~result.write_errors
  /\ result.parity_mismatches > 0
  /\ result.parity_fixed = result.parity_mismatches

====
